---- MODULE Spec2Model ----
(***************************************************************************)
(* Model of the ssh-mcp session subsystem.                                 *)
(*                                                                         *)
(* The connection pool (internal/connection/pool.go, the revision with the *)
(* reservation pattern) is modelled as a set of goroutines that each run   *)
(* one pool operation at a time.  A step of a goroutine is one critical    *)
(* section of the code (the statements between a Lock and its Unlock), one *)
(* wait on a ready channel, or one network operation (dial, keepalive,     *)
(* close).  The pool lock is explicit because CloseAll holds it across a   *)
(* wait; the per-session lock is never held across a wait, so the sections *)
(* it guards are single steps.                                             *)
(***************************************************************************)
EXTENDS Integers, Sequences, FiniteSets, TLC

\* ------------------------------------------------------------------ bounds

\* Connection objects that Connect may construct in one run.
MaxSessions == 3
\* SSH clients that ssh.Dial may produce in one run.
MaxClients == 3
\* The clock runs from 0 to MaxTime.
MaxTime == 1
\* IncrementCommandCount calls per session.
MaxCommands == 1

\* ------------------------------------------------------- configuration

\* cfg.MaxConnections (0 = unlimited).
MaxConnections == 1
\* cfg.MaxIdleTime, in clock ticks.
MaxIdleTime == 0
\* cfg.Security.RateLimit, requests per minute.
RateLimit == 60

\* ------------------------------------------------------------ goroutines

Callers == {"c1", "c2"}
Janitor == "janitor"
Closer == "closer"
Procs == Callers \cup {Janitor, Closer}
NoProc == "none"

\* ---------------------------------------------------------------- values

Users == {"u"}
Hosts == {"h1", "h2"}
Ports == {22}
Passwords == {"", "pw"}

\* ConnectParams: no key file is readable in the model, so the password is
\* the only source of an authentication method.
ParamSet == [User : Users, Host : Hosts, Port : Ports, Password : Passwords]

\* SessionID "user@host:port"; the triple stands for the formatted string.
MakeSessionID(user, host, port) == <<user, host, port>>

SessionIDs == {MakeSessionID(u, h, pt) : u \in Users, h \in Hosts, pt \in Ports}
NoID == <<>>

\* fmt.Sprintf("%s:%d", params.Host, params.Port)
MakeAddr(host, port) == <<host, port>>
NoAddr == <<>>

\* BuildAuthMethods: the ordered list of methods the params yield.
BuildAuthMethods(params) ==
    IF params.Password # "" THEN <<"password">> ELSE <<>>

NoConfig == [User |-> "", Auth |-> <<>>]

BuildClientConfig(params) ==
    [User |-> params.User, Auth |-> BuildAuthMethods(params)]

SessIdx == 1..MaxSessions
ClientIdx == 1..MaxClients
NoSess == 0
NoClient == 0

\* The ID of a Connection object that the garbage collector has reclaimed.
Collected == <<"collected">>

\* A Connection object that has not been constructed yet.
BlankSession ==
    [ID |-> NoID, Host |-> "", Port |-> 0, User |-> "",
     Client |-> NoClient, Connected |-> FALSE,
     ConnectedAt |-> 0, LastUsed |-> 0, CommandCount |-> 0,
     clientConfig |-> NoConfig, addr |-> NoAddr,
     ready |-> FALSE, connectErr |-> FALSE]

\* An ssh.Client slot: st is "unused", "up" (open, link alive), "down" (open,
\* link lost) or "closed" (Close was called); addr and config are what it was
\* dialed with; by is the session object the dial was made for.
BlankClient == [st |-> "unused", addr |-> NoAddr, config |-> NoConfig, by |-> NoSess]

\* SSHExecuteInput and SSHExecuteOutput (part of them), before any call.
NoInput == [Command |-> <<>>, WorkingDir |-> <<>>, Sudo |-> FALSE, Timeout |-> 0]
NoOutput == [ExitCode |-> 0, Stdout |-> <<>>]

\* What a returning step reports: the goroutine, the operation, the session
\* id of the call, the session returned (GetConnection) or disconnected
\* (Disconnect), the error ("" for nil), the error it wraps, if the model
\* tells it apart, and the pending session the call constructed.  Connect
\* returns the id when the error is nil.
NoRet == [by |-> "none", op |-> "", id |-> NoID, conn |-> NoSess, err |-> "",
          cause |-> "", pending |-> NoSess, infos |-> {}, input |-> NoInput,
          out |-> NoOutput]

Ret(p, op, id, conn, err, pending) ==
    [by |-> p, op |-> op, id |-> id, conn |-> conn, err |-> err,
     cause |-> "", pending |-> pending, infos |-> {}, input |-> NoInput,
     out |-> NoOutput]

\* Both machines are POSIX systems on which the server, and the user it logs
\* in as, may read, write and search every file and directory.  WorkDir is
\* the server's working directory and HomeDir the directory the SFTP server
\* starts in.
WorkDir == <<"/", "a">>
HomeDir == <<"/", "a">>

\* The mode of the directories there are at the start: 0755.
DirMode == 493

\* A path that names no file, and a directory.
NoFile ==
    [exists |-> FALSE, kind |-> "none", data |-> <<>>, mode |-> 0, target |-> <<>>]
Directory(mode) ==
    [exists |-> TRUE, kind |-> "dir", data |-> <<>>, mode |-> mode, target |-> <<>>]

\* The file systems with the two directories alone.
NoFS == [local |-> [x \in {WorkDir} |-> Directory(DirMode)],
         remote |-> [x \in {HomeDir} |-> Directory(DirMode)]]

\* No entry of a remote walk, and the working values of a file tool before
\* its body starts: the local and the remote path at hand, the two roots of
\* a directory transfer, the mode given and the mode to set, the files that
\* are open for reading and for writing and the offset in them, the remote
\* file or directory that is open (handle: the path it lies under now;
\* opened: the path the directory was opened with; entries: what ReadDir
\* has got; begun: a READDIR was answered; rderr: a request failed), the paths
\* or entries still to visit, the calls of MkdirAll that are open, the entry
\* visited last, the counts, the data read or to write, what the step at
\* hand is for, and the new content of an edit.
NoEntry == [path |-> <<>>, node |-> NoFile, err |-> ""]
NoWork ==
    [local |-> <<>>, remote |-> <<>>, ldir |-> <<>>, rdir |-> <<>>,
     perms |-> <<>>, mode |-> 0, src |-> <<>>, dst |-> <<>>, off |-> 0,
     stack |-> <<>>, mk |-> <<>>, cur |-> NoEntry, descend |-> FALSE,
     files |-> 0, bytes |-> 0, data |-> <<>>, then |-> "", newContent |-> <<>>,
     statOK |-> FALSE,
     handle |-> <<>>, opened |-> <<>>, entries |-> <<>>, begun |-> FALSE,
     rderr |-> FALSE]

BlankLocals ==
    [params |-> [User |-> "", Host |-> "", Port |-> 0, Password |-> ""],
     id |-> NoID, existing |-> NoSess, pending |-> NoSess, conn |-> NoSess,
     clientConfig |-> NoConfig, addr |-> NoAddr, toDisconnect |-> {},
     toVisit |-> {}, infos |-> {},
     input |-> NoInput, cmd |-> <<>>, timeout |-> 0, deadline |-> 0,
     client |-> NoClient, cancelled |-> FALSE, done |-> "",
     work |-> NoWork]

NoParams == BlankLocals.params

\* A security.Filter with four empty lists.
NoFilter ==
    [err |-> FALSE, hostAllow |-> <<>>, hostDeny |-> <<>>, cmdAllow |-> <<>>, cmdDeny |-> <<>>]

\* No filter function has been called.
NoVerdict == [fn |-> "", input |-> <<>>, ok |-> TRUE]

\* config.go:42-43: sudo is off and commands get CommandTimeout seconds
\* unless the flags say otherwise.
CommandTimeout == 2
\* KnownHosts is what os.Stat and knownhosts.New find at KnownHostsPath:
\* "ok", "missing" or "unparsable".  config.go:49: the file operations are
\* not rate limited unless the flag is given.
DefaultConfig ==
    [AllowSudo |-> FALSE, CommandTimeout |-> CommandTimeout,
     VerifyHostKey |-> TRUE, KnownHosts |-> "ok",
     LocalBaseDir |-> <<>>, MaxFileSize |-> 0, RateLimitFileOps |-> FALSE]

\* The remote hosts have seen nothing: no channel was opened, no command was
\* started and no signal was sent.
NoRemote == [channels |-> 0, ran |-> {}, killed |-> {}]

\* The bucket objects (rate.Limiter) there can be at a time, and the place
\* of one that is not made or that nothing refers to any more.
MaxBuckets == 3
NoBucket == [host |-> "", tokens |-> 0, last |-> 0, born |-> 0, calls |-> 0]

\* A getLimiter call that has not started, and the RateLimiter after
\* NewRateLimiter (ratelimit.go:22-28): both maps empty, no bucket made.
NoCall == [at |-> "idle", host |-> "", limiter |-> 0, ok |-> FALSE]
NoRL == [limiters |-> <<>>, lastAccessed |-> <<>>,
         made |-> [i \in 1..MaxBuckets |-> NoBucket],
         call |-> [p \in Callers |-> NoCall]]

VARIABLES
    conns,      \* Pool.conns: SessionID -> session object (NoSess: no entry)
    sess,       \* the Connection objects
    clients,    \* the ssh.Client objects
    mu,         \* the goroutine holding Pool.mu across steps (CloseAll), or NoProc
    pc,         \* where each goroutine is
    loc,        \* each goroutine's local variables
    ret,        \* what the call that returned in the last step returned, or NoRet
    now,        \* the clock
    filter,     \* the security.Filter: its four lists of patterns
    verdict,    \* what the last call of a filter function was given and gave
    rpm,        \* RateLimiter.rpm
    remote,     \* what the remote hosts have seen: channels, commands, signals
    sshConfig,  \* config.SSHConfig: AllowSudo, CommandTimeout, VerifyHostKey
    fs,         \* the files: fs.local on this machine, fs.remote on the host
    rl          \* the RateLimiter's two maps and bucket objects, one lock
                \* section at a time, and where each getLimiter call is

vars == <<conns, sess, clients, mu, pc, loc, ret, now,
          filter, verdict, rpm, remote, sshConfig, fs, rl>>

\* --------------------------------------------------------------- helpers

\* len(p.conns)
PoolLen == Cardinality({id \in SessionIDs : conns[id] # NoSess})

InPool(o) == \E id \in SessionIDs : conns[id] = o

FreeSessions == {o \in SessIdx : sess[o].ID = NoID}
FreeClients == {c \in ClientIdx : clients[c].st = "unused"}

Min(S) == CHOOSE x \in S : \A y \in S : x <= y

\* isAlive: a nil client is dead; otherwise the keepalive request succeeds
\* iff the client is open and its link is up.
isAlive(c) == c # NoClient /\ clients[c].st = "up"

\* client.Close() on the client table.
CloseClient(cl, c) ==
    IF c = NoClient THEN cl ELSE [cl EXCEPT ![c].st = "closed"]

\* Whether Close() reports an error: closing a client that is already closed.
CloseErr(c) == c # NoClient /\ clients[c].st = "closed"

\* The goroutines that hold Pool.mu for reading across steps: the range
\* loops of cleanupIdle (pool.go:83-98) and ListConnections (351-383).
Readers == {p \in Procs : pc[p] \in {"k_scan", "l_scan"}}

\* p.mu.RLock() succeeds while no goroutine holds the lock for writing.
PoolRLockFree == mu = NoProc

\* p.mu.Lock() succeeds while no goroutine holds the lock, for writing or
\* for reading.
PoolLockFree == mu = NoProc /\ Readers = {}

\* ----------------------------------------------------- garbage collection

\* The session objects that the pool map c, the goroutines' locals l or the
\* value r being returned still hold.
Referenced(c, l, r) ==
    {c[id] : id \in SessionIDs}
      \cup {l[p].existing : p \in Procs}
      \cup {l[p].pending : p \in Procs}
      \cup {l[p].conn : p \in Procs}
      \cup {r.conn, r.pending}

\* A session object nothing holds any more can neither change nor be seen:
\* it is reclaimed (its slot is not used again).
CollectSessions(s, c, l, r) ==
    [o \in SessIdx |->
        IF s[o].ID # NoID /\ o \notin Referenced(c, l, r)
        THEN [BlankSession EXCEPT !.ID = Collected]
        ELSE s[o]]

\* A client that no session holds and no call has a channel on can no
\* longer be closed, probed, used or replaced: it is "leaked" when it is
\* still open, and reclaimed when it is closed.
CollectClients(cl, s, l) ==
    [c \in ClientIdx |->
        IF cl[c].st \in {"unused", "reclaimed", "leaked"}
           \/ \E o \in SessIdx : s[o].Client = c
           \/ \E p \in Procs : l[p].client = c
        THEN cl[c]
        ELSE [BlankClient EXCEPT !.st = IF cl[c].st = "closed"
                                        THEN "reclaimed" ELSE "leaked"]]

\* ------------------------------------------------------------------ steps

\* One step of the system: the new value of every variable, with the
\* objects that the step leaves unreferenced reclaimed.
UpdatePool(pc2, loc2, r, c, s, cl, m, t) ==
    /\ pc' = pc2
    /\ loc' = loc2
    /\ ret' = r
    /\ conns' = c
    /\ sess' = CollectSessions(s, c, loc2, r)
    /\ clients' = CollectClients(cl, sess', loc2)
    /\ mu' = m
    /\ now' = t

\* A step of the pool: the filter, the rate limiter and the remote hosts are
\* not involved.
Update(pc2, loc2, r, c, s, cl, m, t) ==
    /\ UpdatePool(pc2, loc2, r, c, s, cl, m, t)
    /\ UNCHANGED <<filter, verdict, rpm, remote, sshConfig, fs, rl>>

\* A step of goroutine p that does not return: p goes to label with the
\* locals l; the pool map, the sessions and the clients become c, s and cl.
Goto(p, label, l, c, s, cl) ==
    Update([pc EXCEPT ![p] = label], [loc EXCEPT ![p] = l], NoRet, c, s, cl, mu, now)

\* A step of goroutine p that returns r from its call.
Return(p, r, c, s, cl) ==
    Update([pc EXCEPT ![p] = "idle"], [loc EXCEPT ![p] = BlankLocals], r,
           c, s, cl, mu, now)

\* The state after construction, with filter f, rate limit r, config conf
\* and the files files.
InitAll(f, r, conf, files) ==
    /\ conns = [id \in SessionIDs |-> NoSess]
    /\ sess = [o \in SessIdx |-> BlankSession]
    /\ clients = [c \in ClientIdx |-> BlankClient]
    /\ mu = NoProc
    /\ pc = [p \in Procs |-> "idle"]
    /\ loc = [p \in Procs |-> BlankLocals]
    /\ ret = NoRet
    /\ now = 0
    /\ filter = f
    /\ verdict = NoVerdict
    /\ rpm = r
    /\ remote = NoRemote
    /\ sshConfig = conf
    /\ fs = files
    /\ rl = NoRL

\* The state after construction where no file matters.
InitWith(f, r, conf) == InitAll(f, r, conf, NoFS)

Init == InitWith(NoFilter, RateLimit, DefaultConfig)

\* ------------------------------------------------------------ RateLimiter

\* ratelimit.go:97: the bucket counts in units of 1/60 token, so that the
\* refill of one second, rpm/60 tokens, is rpm units.
TokenUnit == 60
MaxCalls == 3

Max(a, b) == IF a >= b THEN a ELSE b

\* burst without the floor of 1.
burstNoFloor(r) == r \div 10

\* ratelimit.go:98
burst(r) == Max(r \div 10, 1)

\* The bucket objects that the map or a getLimiter call in progress holds.
HeldBuckets(r) ==
    {r.limiters[h] : h \in DOMAIN r.limiters}
       \cup {r.call[p].limiter :
                p \in {q \in Callers : r.call[q].at \in {"l_touch", "l_allow"}}}

\* The rate limiter r with the bucket objects that nothing holds reclaimed.
CollectBuckets(r) ==
    [r EXCEPT !.made = [i \in DOMAIN @ |->
                           IF i \in HeldBuckets(r) THEN @[i] ELSE NoBucket]]

\* A step of the rate limiter: its state becomes r, all else stays.
LimiterStep(r) ==
    /\ rl' = CollectBuckets(r)
    /\ UNCHANGED <<conns, sess, clients, mu, pc, loc, ret, now, filter, verdict,
                   rpm, remote, sshConfig, fs>>

\* The map m with key k set to v, and without the keys in ks.
Put(m, k, v) == [x \in DOMAIN m \cup {k} |-> IF x = k THEN v ELSE m[x]]
Without(m, ks) == [x \in DOMAIN m \ ks |-> m[x]]

\* ratelimit.go:97-100: rate.NewLimiter(rps, burst) for a host: a full
\* bucket; for the record it has the time it was made at and the number of
\* Allow calls it has answered.
NewLimiter(host) ==
    [host |-> host, tokens |-> burst(rpm) * TokenUnit, last |-> now,
     born |-> now, calls |-> 0]

\* rate.Limiter: the tokens of a bucket at the current time.
Tokens(b) == Min({b.tokens + (now - b.last) * rpm, burst(rpm) * TokenUnit})

\* ratelimit.go:31-32 and 76-78: the rate limiter after goroutine p
\* has called Allow(host) and getLimiter has read the bucket map under the
\* read lock.
AllowEnter(p, host) ==
    [rl EXCEPT !.call[p] =
        IF host \in DOMAIN rl.limiters
        THEN [at |-> "l_touch", host |-> host,
              limiter |-> rl.limiters[host], ok |-> FALSE]
        ELSE [at |-> "l_make", host |-> host, limiter |-> 0, ok |-> FALSE]]

\* A goroutine that is in no tool handler calls Allow(host).
AllowCall(p, host) ==
    /\ rl.call[p].at = "idle"
    /\ LimiterStep(AllowEnter(p, host))

\* The Allow call of goroutine p has returned (or p has made none).
AllowReturned(p) == rl.call[p].at = "idle"

\* ratelimit.go:80-85: the bucket was found: lastAccessed is set under the
\* write lock and the bucket that was found is returned.
GetLimiterFound(p) ==
    LET c == rl.call[p] IN
    /\ c.at = "l_touch"
    /\ LimiterStep([rl EXCEPT !.lastAccessed = Put(@, c.host, now),
                              !.call[p].at = "l_allow"])

\* The places free for a new bucket object.
FreeBuckets == {i \in DOMAIN rl.made : rl.made[i] = NoBucket}

\* getLimiter's slow path without the second look at the map.
GetLimiterMakeAlways(p) ==
    LET c == rl.call[p] IN
    /\ c.at = "l_make"
    /\ FreeBuckets # {}
    /\ LimiterStep([rl EXCEPT
          !.made[Min(FreeBuckets)] = NewLimiter(c.host),
          !.limiters = Put(@, c.host, Min(FreeBuckets)),
          !.lastAccessed = Put(@, c.host, now),
          !.call[p] = [c EXCEPT !.at = "l_allow", !.limiter = Min(FreeBuckets)]])

\* ratelimit.go:87-103: no bucket was found: under the write lock the map
\* is read again; a bucket that is there now is returned, else one is made
\* and stored; lastAccessed is set.
GetLimiterMake(p) ==
    LET c == rl.call[p] IN
    /\ c.at = "l_make"
    /\ IF c.host \in DOMAIN rl.limiters
       THEN LimiterStep([rl EXCEPT
               !.lastAccessed = Put(@, c.host, now),
               !.call[p] = [c EXCEPT !.at = "l_allow",
                                     !.limiter = rl.limiters[c.host]]])
       ELSE GetLimiterMakeAlways(p)

\* ratelimit.go:33-36: limiter.Allow() on the bucket getLimiter returned:
\* with a whole token in the bucket at this time, the bucket is brought to
\* this time and the token is taken; else the bucket is left as it is and
\* the call is refused.  The bucket counts the calls it has answered.
LimiterAllow(p) ==
    LET c == rl.call[p]
        b == rl.made[c.limiter]
        ok == Tokens(b) >= TokenUnit
    IN
    /\ c.at = "l_allow"
    /\ b.calls < MaxCalls
    /\ LimiterStep([rl EXCEPT
          !.made[c.limiter] =
              [b EXCEPT !.tokens = IF ok THEN Tokens(b) - TokenUnit ELSE @,
                        !.last = IF ok THEN now ELSE @,
                        !.calls = @ + 1],
          !.call[p] = [c EXCEPT !.at = "idle", !.ok = ok]])

\* ratelimit.go:40-54: Cleanup(maxAge) deletes, under the write lock, every
\* host whose lastAccessed is more than maxAge old from both maps.  The
\* clock counts whole seconds and the calls are made at instants within
\* them: a host accessed maxAge seconds ago is more than maxAge old when
\* the access was made earlier in its second than Cleanup in its own, which
\* is so for the hosts in late, and for every access of the current second.
Cleanup(maxAge, late) ==
    LET edge == {h \in DOMAIN rl.lastAccessed : now - rl.lastAccessed[h] = maxAge}
        stale == {h \in DOMAIN rl.lastAccessed : now - rl.lastAccessed[h] > maxAge}
                    \cup late
    IN
    /\ late \subseteq edge
    /\ maxAge = 0 => late = edge
    /\ LimiterStep([rl EXCEPT !.limiters = Without(@, stale),
                              !.lastAccessed = Without(@, stale)])

\* ------------------------------------------------------------ environment

\* The network link of an open client is lost.
LinkDown(c) ==
    /\ clients[c].st = "up"
    /\ Update(pc, loc, NoRet, conns, sess, [clients EXCEPT ![c].st = "down"], mu, now)

\* Time passes: one second.
Tick ==
    /\ now < MaxTime
    /\ UpdatePool(pc, loc, NoRet, conns, sess, clients, mu, now + 1)
    /\ UNCHANGED <<filter, verdict, rpm, remote, sshConfig, fs, rl>>

\* ------------------------------------------------------------ Pool.Connect

\* Labels of a Connect call that has not yet constructed its pending session.
PreConstructLabels ==
    {"c_wait1", "c_rm_failed", "c_probe1", "c_rm_dead", "c_close_dead", "c_auth"}

\* cur, ok := p.conns[id]; ok && cur == o
StillInstance(id, o) == conns[id] # NoSess /\ conns[id] = o

\* delete(p.conns, id) if the entry is still the instance o.
DeleteIfStill(id, o) ==
    IF StillInstance(id, o) THEN [conns EXCEPT ![id] = NoSess] ELSE conns

\* existing.Connected && p.isAlive(existing.Client), under the session's RLock.
ProbeAlive(o) == sess[o].Connected /\ isAlive(sess[o].Client)

\* existing.LastUsed = time.Now(), under the session's lock.
Bumped(o) == [sess EXCEPT ![o].LastUsed = now]

\* close(pending.ready)
ReadyClosed(o) == [sess EXCEPT ![o].ready = TRUE]

\* pool.go:179-181: the pool is full and the caller replaces no entry.
PoolFull(id) ==
    /\ MaxConnections > 0
    /\ PoolLen >= MaxConnections
    /\ conns[id] = NoSess

\* pool.go:116-123: make the id, look the entry up under the read lock.
ConnectLookup(p, params) ==
    /\ PoolRLockFree
    /\ Cardinality(FreeSessions)
         > Cardinality({q \in Procs : pc[q] \in PreConstructLabels})
    /\ LET id == MakeSessionID(params.User, params.Host, params.Port) IN
       Goto(p, IF conns[id] # NoSess THEN "c_wait1" ELSE "c_auth",
            [BlankLocals EXCEPT !.params = params, !.id = id,
                                !.existing = conns[id]],
            conns, sess, clients)

\* A call of Pool.Connect by an idle goroutine.
ConnectStart(p, params) ==
    /\ pc[p] = "idle"
    /\ ConnectLookup(p, params)

\* pool.go:125-126 and 131: the entry's ready channel is closed.
ConnectWait1(p) ==
    /\ pc[p] = "c_wait1"
    /\ sess[loc[p].existing].ready
    /\ Goto(p, IF sess[loc[p].existing].connectErr
               THEN "c_rm_failed" ELSE "c_probe1",
            loc[p], conns, sess, clients)

\* pool.go:127-128: ctx is done during the wait.
ConnectCtx1(p) ==
    /\ pc[p] = "c_wait1"
    /\ Return(p, Ret(p, "Connect", loc[p].id, NoSess, "ctx", NoSess),
              conns, sess, clients)

\* pool.go:133-137: the previous attempt failed; remove it if still there.
ConnectRmFailed(p) ==
    /\ pc[p] = "c_rm_failed"
    /\ PoolLockFree
    /\ Goto(p, "c_auth", loc[p], DeleteIfStill(loc[p].id, loc[p].existing),
            sess, clients)

\* pool.go:139-142: liveness probe of the existing session.
ConnectProbe1(p) ==
    /\ pc[p] = "c_probe1"
    /\ Goto(p, IF ProbeAlive(loc[p].existing) THEN "c_bump1" ELSE "c_rm_dead",
            loc[p], conns, sess, clients)

\* pool.go:143-146: reuse the live session.
ConnectBump1(p) ==
    /\ pc[p] = "c_bump1"
    /\ Return(p, Ret(p, "Connect", loc[p].id, NoSess, "", NoSess),
              conns, Bumped(loc[p].existing), clients)

\* pool.go:149-153: the session is dead; remove it if still there.
ConnectRmDead(p) ==
    /\ pc[p] = "c_rm_dead"
    /\ PoolLockFree
    /\ Goto(p, "c_close_dead", loc[p],
            DeleteIfStill(loc[p].id, loc[p].existing), sess, clients)

\* pool.go:154-156: close the dead session's client (read without a lock).
ConnectCloseDead(p) ==
    /\ pc[p] = "c_close_dead"
    /\ Goto(p, "c_auth", loc[p], conns, sess,
            CloseClient(clients, sess[loc[p].existing].Client))

\* buildHostKeyCallback: with verification on, the known_hosts file must
\* exist and parse.
buildHostKeyCallbackOK ==
    ~sshConfig.VerifyHostKey \/ sshConfig.KnownHosts = "ok"

\* BuildClientConfig without the host key callback.
BuildClientConfigOKAnyHostKey(params) == Len(BuildAuthMethods(params)) > 0

\* BuildClientConfig: fails when no authentication method is available or
\* the host key callback cannot be built.
BuildClientConfigOK(params) ==
    /\ Len(BuildAuthMethods(params)) > 0
    /\ buildHostKeyCallbackOK

\* pool.go:168-174: the pending session: identity, ready open, no client.
Pending(id, params) ==
    [BlankSession EXCEPT !.ID = id, !.Host = params.Host,
                         !.Port = params.Port, !.User = params.User]

\* pool.go:160-174: build the client configuration, construct the pending
\* session.  The params and the first existing are not used after this.
ConnectAuth(p) ==
    /\ pc[p] = "c_auth"
    /\ IF ~BuildClientConfigOK(loc[p].params)
       THEN Return(p, Ret(p, "Connect", loc[p].id, NoSess, "auth", NoSess),
                   conns, sess, clients)
       ELSE LET o == Min(FreeSessions)
                pr == loc[p].params IN
            Goto(p, "c_lock",
                 [BlankLocals EXCEPT !.id = loc[p].id,
                                     !.pending = o,
                                     !.clientConfig = BuildClientConfig(pr),
                                     !.addr = MakeAddr(pr.Host, pr.Port)],
                 conns, [sess EXCEPT ![o] = Pending(loc[p].id, pr)], clients)

\* ConnectLock without the re-check of pool.go:189-190: the reservation is
\* placed over whatever the pool holds under the id.
ConnectLockNoRecheck(p) ==
    /\ pc[p] = "c_lock"
    /\ PoolLockFree
    /\ IF PoolFull(loc[p].id)
       THEN Return(p, Ret(p, "Connect", loc[p].id, NoSess, "full", loc[p].pending),
                   conns, ReadyClosed(loc[p].pending), clients)
       ELSE Goto(p, "c_dial", loc[p],
                 [conns EXCEPT ![loc[p].id] = loc[p].pending], sess, clients)

\* pool.go:176-190 and 227-228: under the pool lock, enforce the cap, look
\* for another reservation, else place the pending reservation.
ConnectLock(p) ==
    /\ pc[p] = "c_lock"
    /\ PoolLockFree
    /\ LET id == loc[p].id
           o == loc[p].pending IN
       IF PoolFull(id)
       THEN Return(p, Ret(p, "Connect", loc[p].id, NoSess, "full", o),
                   conns, ReadyClosed(o), clients)
       ELSE IF conns[id] # NoSess
       THEN Goto(p, "c_wait2", [loc[p] EXCEPT !.existing = conns[id]],
                 conns, sess, clients)
       ELSE Goto(p, "c_dial", loc[p], [conns EXCEPT ![id] = o], sess, clients)

\* pool.go:193-194 and 199: the other attempt's ready channel is closed.
ConnectWait2(p) ==
    /\ pc[p] = "c_wait2"
    /\ sess[loc[p].existing].ready
    /\ Goto(p, IF sess[loc[p].existing].connectErr
               THEN "c_relock" ELSE "c_probe2",
            loc[p], conns, sess, clients)

\* pool.go:195-196: ctx is done during the wait.
ConnectCtx2(p) ==
    /\ pc[p] = "c_wait2"
    /\ Return(p, Ret(p, "Connect", loc[p].id, NoSess, "ctx", loc[p].pending),
              conns, sess, clients)

\* pool.go:200-203: liveness probe of the other attempt's session.
ConnectProbe2(p) ==
    /\ pc[p] = "c_probe2"
    /\ Goto(p, IF ProbeAlive(loc[p].existing) THEN "c_bump2" ELSE "c_relock",
            loc[p], conns, sess, clients)

\* pool.go:204-207: adopt the other attempt's live session.
ConnectBump2(p) ==
    /\ pc[p] = "c_bump2"
    /\ Return(p, Ret(p, "Connect", loc[p].id, NoSess, "", loc[p].pending),
              conns, Bumped(loc[p].existing), clients)

\* pool.go:218: another reservation, not ours, is in the pool under the id.
ThirdReservation(id, o) == conns[id] # NoSess /\ conns[id] # o

\* ConnectRelock giving up whenever the awaited reservation has left the
\* pool, whether or not another one has taken its place.
ConnectRelockGiveUp(p) ==
    /\ pc[p] = "c_relock"
    /\ PoolLockFree
    /\ IF StillInstance(loc[p].id, loc[p].existing)
       THEN Goto(p, "c_dial", [loc[p] EXCEPT !.existing = NoSess],
                 [conns EXCEPT ![loc[p].id] = loc[p].pending], sess,
                 CloseClient(clients, sess[loc[p].existing].Client))
       ELSE Return(p, Ret(p, "Connect", loc[p].id, NoSess, "concurrent",
                          loc[p].pending),
                   conns, ReadyClosed(loc[p].pending), clients)

\* pool.go:212-228: the other attempt failed or died.  Under the pool lock:
\* replace it if it is still there; give up if a third reservation is there;
\* otherwise place the pending reservation.
ConnectRelock(p) ==
    /\ pc[p] = "c_relock"
    /\ PoolLockFree
    /\ LET id == loc[p].id
           e == loc[p].existing
           o == loc[p].pending
           l == [loc[p] EXCEPT !.existing = NoSess] IN
       IF StillInstance(id, e)
       THEN Goto(p, "c_dial", l, [conns EXCEPT ![id] = o], sess,
                 CloseClient(clients, sess[e].Client))
       ELSE IF ThirdReservation(id, o)
       THEN Return(p, Ret(p, "Connect", loc[p].id, NoSess, "concurrent", o),
                   conns, ReadyClosed(o), clients)
       ELSE Goto(p, "c_dial", l, [conns EXCEPT ![id] = o], sess, clients)

\* ssh.Dial succeeded: the new client, dialed to addr with config for
\* session object o.
Dialed(addr, config, o) ==
    [st |-> "up", addr |-> addr, config |-> config, by |-> o]

\* Installed without the client: the flag and the metadata only.
InstalledFlagOnly(s, c, cfg, addr, t) ==
    [s EXCEPT !.Connected = TRUE, !.ConnectedAt = t,
              !.LastUsed = t, !.clientConfig = cfg, !.addr = addr]

\* The session fields a successful dial of Connect stores under the
\* session's lock (pool.go:244-252).
Installed(s, c, cfg, addr, t) ==
    [s EXCEPT !.Client = c, !.Connected = TRUE, !.ConnectedAt = t,
              !.LastUsed = t, !.clientConfig = cfg, !.addr = addr]

\* pool.go:231 and 244-252: ssh.Dial, made without the pool lock, succeeds;
\* the client is stored in the pending session under the session's lock.
ConnectDial(p) ==
    /\ pc[p] = "c_dial"
    /\ FreeClients # {}
    /\ LET o == loc[p].pending
           c == Min(FreeClients) IN
       Goto(p, "c_ready", loc[p], conns,
            [sess EXCEPT ![o] = Installed(sess[o], c, loc[p].clientConfig,
                                          loc[p].addr, now)],
            [clients EXCEPT ![c] = Dialed(loc[p].addr, loc[p].clientConfig, o)])

\* pool.go:254-255: close(pending.ready) and return the id.
ConnectReady(p) ==
    /\ pc[p] = "c_ready"
    /\ Return(p, Ret(p, "Connect", loc[p].id, NoSess, "", loc[p].pending),
              conns, ReadyClosed(loc[p].pending), clients)

\* pool.go:231-233: ssh.Dial fails; connectErr is set.
ConnectDialErr(p) ==
    /\ pc[p] = "c_dial"
    /\ Goto(p, "c_fail", loc[p], conns,
            [sess EXCEPT ![loc[p].pending].connectErr = TRUE], clients)

\* ConnectFail without the removal of pool.go:235-239: the failed
\* reservation stays in the pool when its ready signal is closed.
ConnectFailKeep(p) ==
    /\ pc[p] = "c_fail"
    /\ PoolLockFree
    /\ Goto(p, "c_fail_close", loc[p], conns, sess, clients)

\* pool.go:235-239: remove the failed reservation under the pool lock.
ConnectFail(p) ==
    /\ pc[p] = "c_fail"
    /\ PoolLockFree
    /\ Goto(p, "c_fail_close", loc[p],
            DeleteIfStill(loc[p].id, loc[p].pending), sess, clients)

\* pool.go:240-241: with the pool lock released, close ready and return the
\* dial error.
ConnectFailClose(p) ==
    /\ pc[p] = "c_fail_close"
    /\ Return(p, Ret(p, "Connect", loc[p].id, NoSess, "dial", loc[p].pending),
              conns, ReadyClosed(loc[p].pending), clients)

\* The steps of a Connect call after its first.
ConnectSteps(p) ==
    \/ ConnectWait1(p) \/ ConnectCtx1(p) \/ ConnectRmFailed(p)
    \/ ConnectProbe1(p) \/ ConnectBump1(p) \/ ConnectRmDead(p)
    \/ ConnectCloseDead(p) \/ ConnectAuth(p) \/ ConnectLock(p)
    \/ ConnectWait2(p) \/ ConnectCtx2(p) \/ ConnectProbe2(p) \/ ConnectBump2(p)
    \/ ConnectRelock(p) \/ ConnectDial(p) \/ ConnectReady(p)
    \/ ConnectDialErr(p) \/ ConnectFail(p) \/ ConnectFailClose(p)

Connect(p) ==
    \/ \E params \in ParamSet : ConnectStart(p, params)
    \/ ConnectSteps(p)

\* ------------------------------------------------------ Pool.GetConnection

\* pool.go:261-267: look the entry up under the read lock.
GetLookup(p, id, input) ==
    /\ PoolRLockFree
    /\ IF conns[id] = NoSess
       THEN Return(p, Ret(p, "GetConnection", id, NoSess, "notfound", NoSess),
                   conns, sess, clients)
       ELSE Goto(p, "g_wait",
                 [BlankLocals EXCEPT !.id = id, !.conn = conns[id],
                                     !.input = input],
                 conns, sess, clients)

\* A call of Pool.GetConnection by an idle goroutine.
GetStart(p, id) ==
    /\ pc[p] = "idle"
    /\ GetLookup(p, id, NoInput)

\* GetWait without the wait: the select of pool.go:270 left out.
GetWaitNoBlock(p) ==
    /\ pc[p] = "g_wait"
    /\ IF sess[loc[p].conn].connectErr
       THEN Return(p, Ret(p, "GetConnection", loc[p].id, NoSess, "connfailed", NoSess),
                   conns, sess, clients)
       ELSE Goto(p, "g_probe", loc[p], conns, sess, clients)

\* GetWait without the connectErr check of pool.go:276-278.
GetWaitIgnoreErr(p) ==
    /\ pc[p] = "g_wait"
    /\ sess[loc[p].conn].ready
    /\ Goto(p, "g_probe", loc[p], conns, sess, clients)

\* pool.go:270-271 and 276-278: the session's ready channel is closed; a
\* failed attempt is reported as "connection failed".
GetWait(p) ==
    /\ pc[p] = "g_wait"
    /\ sess[loc[p].conn].ready
    /\ IF sess[loc[p].conn].connectErr
       THEN Return(p, Ret(p, "GetConnection", loc[p].id, NoSess, "connfailed", NoSess),
                   conns, sess, clients)
       ELSE Goto(p, "g_probe", loc[p], conns, sess, clients)

\* GetCtx that also drops the entry it was waiting on from the pool.
GetCtxDrop(p) ==
    /\ pc[p] = "g_wait"
    /\ Return(p, Ret(p, "GetConnection", loc[p].id, NoSess, "ctx", NoSess),
              DeleteIfStill(loc[p].id, loc[p].conn), sess, clients)

\* pool.go:272-273: ctx is done during the wait.
GetCtx(p) ==
    /\ pc[p] = "g_wait"
    /\ Return(p, Ret(p, "GetConnection", loc[p].id, NoSess, "ctx", NoSess),
              conns, sess, clients)

\* pool.go:280-284: liveness probe.
GetProbe(p) ==
    /\ pc[p] = "g_probe"
    /\ Goto(p, IF ProbeAlive(loc[p].conn) THEN "g_bump" ELSE "g_close",
            loc[p], conns, sess, clients)

\* GetConnection returns the session: the handler that called it holds it.
ReturnSession(p, s, cl) ==
    Update([pc EXCEPT ![p] = "x_hold"],
           [loc EXCEPT ![p] = [BlankLocals EXCEPT !.id = loc[p].id,
                                                  !.conn = loc[p].conn,
                                                  !.input = loc[p].input]],
           Ret(p, "GetConnection", loc[p].id, loc[p].conn, "", NoSess),
           conns, s, cl, mu, now)

\* pool.go:285-288: the session is alive; bump LastUsed and return it.
GetBump(p) ==
    /\ pc[p] = "g_bump"
    /\ ReturnSession(p, Bumped(loc[p].conn), clients)

\* pool.go:295-306: close the old client, mark disconnected, save the
\* configuration and the address for the redial.
GetClose(p) ==
    /\ pc[p] = "g_close"
    /\ LET o == loc[p].conn
           s == [sess EXCEPT ![o].Connected = FALSE]
           cl == CloseClient(clients, sess[o].Client) IN
       IF sess[o].clientConfig = NoConfig
       THEN Return(p, Ret(p, "GetConnection", loc[p].id, NoSess, "noconfig", NoSess),
                   conns, s, cl)
       ELSE Goto(p, "g_dial",
                 [loc[p] EXCEPT !.clientConfig = sess[o].clientConfig,
                                !.addr = sess[o].addr],
                 conns, s, cl)

\* Reinstalled that also restarts ConnectedAt, as a first dial does.
ReinstalledFresh(s, c, t) ==
    [s EXCEPT !.Client = c, !.Connected = TRUE, !.LastUsed = t, !.ConnectedAt = t]

\* The session fields a successful redial stores (pool.go:313-317).
Reinstalled(s, c, t) ==
    [s EXCEPT !.Client = c, !.Connected = TRUE, !.LastUsed = t]

\* pool.go:308 and 313-320: the redial with the saved address and
\* configuration succeeds; the new client is installed.
GetDial(p) ==
    /\ pc[p] = "g_dial"
    /\ FreeClients # {}
    /\ LET o == loc[p].conn
           c == Min(FreeClients) IN
       ReturnSession(p, [sess EXCEPT ![o] = Reinstalled(sess[o], c, now)],
                     [clients EXCEPT ![c] =
                         Dialed(loc[p].addr, loc[p].clientConfig, o)])

\* pool.go:308-311: the redial fails; its error is returned.
GetDialErr(p) ==
    /\ pc[p] = "g_dial"
    /\ Return(p, Ret(p, "GetConnection", loc[p].id, NoSess, "redial", NoSess),
              conns, sess, clients)

\* The steps of a GetConnection call after its first.
GetSteps(p) ==
    \/ GetWait(p) \/ GetCtx(p) \/ GetProbe(p) \/ GetBump(p) \/ GetClose(p)
    \/ GetDial(p) \/ GetDialErr(p)

GetConnection(p) ==
    \/ \E id \in SessionIDs : GetStart(p, id)
    \/ GetSteps(p)

\* pool.go:405-409: the caller that GetConnection gave a session counts a
\* command on it, as ssh_execute does at execute.go:74, and is done with it.
IncrementCommandCount(p) ==
    /\ pc[p] = "x_hold"
    /\ sess[loc[p].conn].CommandCount < MaxCommands
    /\ Goto(p, "idle", BlankLocals, conns,
            [sess EXCEPT ![loc[p].conn].CommandCount = @ + 1], clients)

\* The caller that GetConnection gave a session is done with it: the
\* goroutine holds the session no more.  What a tool does between the two
\* (the rate limiter, the filter, the tool's work) is in the steps of the
\* tools and touches nothing of the pool but the command count.
Release(p) ==
    /\ pc[p] = "x_hold"
    /\ Goto(p, "idle", BlankLocals, conns, sess, clients)

\* --------------------------------------------------------- Pool.Disconnect

\* pool.go:341: conn.Connected = false, under the session lock.
MarkDisconnected(o) == [sess EXCEPT ![o].Connected = FALSE]

\* pool.go:326-333: under the pool lock, remove the entry or report that
\* there is none.
DisconnectStart(p, id) ==
    /\ pc[p] = "idle"
    /\ PoolLockFree
    /\ IF conns[id] = NoSess
       THEN Return(p, Ret(p, "Disconnect", id, NoSess, "notfound", NoSess),
                   conns, sess, clients)
       ELSE Goto(p, "d_wait", [BlankLocals EXCEPT !.id = id, !.conn = conns[id]],
                 [conns EXCEPT ![id] = NoSess], sess, clients)

\* DisconnectWait without the wait on ready of pool.go:336.
DisconnectWaitNoBlock(p) ==
    /\ pc[p] = "d_wait"
    /\ Return(p, Ret(p, "Disconnect", loc[p].id, loc[p].conn,
                     IF CloseErr(sess[loc[p].conn].Client) THEN "close" ELSE "",
                     NoSess),
              conns, MarkDisconnected(loc[p].conn),
              CloseClient(clients, sess[loc[p].conn].Client))

\* pool.go:336-345: wait for the pending attempt, then mark disconnected and
\* close the client if any; the error of Close is returned.
DisconnectWait(p) ==
    /\ pc[p] = "d_wait"
    /\ sess[loc[p].conn].ready
    /\ LET o == loc[p].conn IN
       Return(p, Ret(p, "Disconnect", loc[p].id, o,
                     IF CloseErr(sess[o].Client) THEN "close" ELSE "", NoSess),
              conns, MarkDisconnected(o), CloseClient(clients, sess[o].Client))

Disconnect(p) ==
    \/ \E id \in SessionIDs : DisconnectStart(p, id)
    \/ DisconnectWait(p)

\* -------------------------------------------------------- Pool.cleanupIdle

\* IdleSelected without the ready check of pool.go:87-91.
IdleSelectedNoReady(o) ==
    /\ sess[o].Connected
    /\ now - sess[o].LastUsed > MaxIdleTime

\* pool.go:87-96: the range loop selects the session o when its ready
\* channel is closed and, under the session's read lock, it is connected
\* and was last used longer ago than MaxIdleTime.
IdleSelected(o) ==
    /\ sess[o].ready
    /\ sess[o].Connected
    /\ now - sess[o].LastUsed > MaxIdleTime

\* pool.go:83-85: take the pool's read lock and start the range over the
\* map, which cannot change while the lock is held.
CleanupScan(p) ==
    /\ pc[p] = "idle"
    /\ PoolRLockFree
    /\ Goto(p, "k_scan",
            [BlankLocals EXCEPT !.toVisit = {id \in SessionIDs : conns[id] # NoSess}],
            conns, sess, clients)

\* pool.go:85-97: one iteration of the range loop: the next entry, in no
\* particular order, is looked at under its own lock.
CleanupVisit(p) ==
    /\ pc[p] = "k_scan"
    /\ \E id \in loc[p].toVisit :
          Goto(p, "k_scan",
               [loc[p] EXCEPT !.toVisit = @ \ {id},
                              !.toDisconnect =
                                  IF IdleSelected(conns[id]) THEN @ \cup {id} ELSE @],
               conns, sess, clients)

\* pool.go:98: the range is over; release the read lock.
CleanupScanned(p) ==
    /\ pc[p] = "k_scan"
    /\ loc[p].toVisit = {}
    /\ Goto(p, "k_loop", loc[p], conns, sess, clients)

\* pool.go:100-103 with 326-333: Disconnect of the next selected id (its
\* error is dropped), or the end of the loop.
CleanupNext(p) ==
    /\ pc[p] = "k_loop"
    /\ IF loc[p].toDisconnect = {}
       THEN Goto(p, "idle", BlankLocals, conns, sess, clients)
       ELSE /\ PoolLockFree
            /\ \E id \in loc[p].toDisconnect :
                 LET l == [loc[p] EXCEPT !.toDisconnect = @ \ {id}] IN
                 IF conns[id] = NoSess
                 THEN Goto(p, "k_loop", l, conns, sess, clients)
                 ELSE Goto(p, "k_wait", [l EXCEPT !.id = id, !.conn = conns[id]],
                           [conns EXCEPT ![id] = NoSess], sess, clients)

\* pool.go:336-345 for the Disconnect that cleanupIdle calls.
CleanupWait(p) ==
    /\ pc[p] = "k_wait"
    /\ sess[loc[p].conn].ready
    /\ LET o == loc[p].conn IN
       Goto(p, "k_loop", [loc[p] EXCEPT !.id = NoID, !.conn = NoSess],
            conns, MarkDisconnected(o), CloseClient(clients, sess[o].Client))

cleanupIdle(p) ==
    \/ CleanupScan(p) \/ CleanupVisit(p) \/ CleanupScanned(p)
    \/ CleanupNext(p) \/ CleanupWait(p)

\* ----------------------------------------------------------- Pool.CloseAll

\* pool.go:388: take the pool lock; it is held until CloseAll returns.
CloseAllLock(p) ==
    /\ pc[p] = "idle"
    /\ PoolLockFree
    /\ Update([pc EXCEPT ![p] = "a_range"], loc, NoRet, conns, sess, clients,
              p, now)

\* pool.go:391 and 402: the next entry of the map, or the end of the loop and
\* the deferred Unlock.  CloseAll runs once, at shutdown.
CloseAllRange(p) ==
    /\ pc[p] = "a_range"
    /\ IF PoolLen = 0
       THEN Update([pc EXCEPT ![p] = "stopped"],
                   [loc EXCEPT ![p] = BlankLocals],
                   Ret(p, "CloseAll", NoID, NoSess, "", NoSess),
                   conns, sess, clients, NoProc, now)
       ELSE \E id \in SessionIDs :
               /\ conns[id] # NoSess
               /\ Goto(p, "a_wait", [loc[p] EXCEPT !.id = id, !.conn = conns[id]],
                       conns, sess, clients)

\* pool.go:393-400: wait for the entry's ready, mark disconnected, close the
\* client, delete the entry.
CloseAllWait(p) ==
    /\ pc[p] = "a_wait"
    /\ sess[loc[p].conn].ready
    /\ LET o == loc[p].conn IN
       Goto(p, "a_range", BlankLocals, [conns EXCEPT ![loc[p].id] = NoSess],
            MarkDisconnected(o), CloseClient(clients, sess[o].Client))

CloseAll(p) == CloseAllLock(p) \/ CloseAllRange(p) \/ CloseAllWait(p)

\* ------------------------------------------------------------------- Spec

Next ==
    \/ \E p \in Callers : Connect(p)
    \/ \E p \in Callers : GetConnection(p)
    \/ \E p \in Callers : IncrementCommandCount(p)
    \/ \E p \in Callers : Release(p)
    \/ \E p \in Callers : Disconnect(p)
    \/ cleanupIdle(Janitor)
    \/ CloseAll(Closer)
    \/ \E c \in ClientIdx : LinkDown(c)
    \/ Tick

Spec == Init /\ [][Next]_vars

\* The params that carry a password, so that BuildClientConfig succeeds.
ValidParams == {params \in ParamSet : BuildClientConfigOK(params)}

\* Connect calls alone, with valid params, every dial succeeding, no link
\* lost and no context cancelled.
NextCoalesce ==
    \E p \in Callers :
        \/ \E params \in ValidParams : ConnectStart(p, params)
        \/ ConnectWait1(p) \/ ConnectProbe1(p) \/ ConnectBump1(p)
        \/ ConnectAuth(p) \/ ConnectLock(p)
        \/ ConnectWait2(p) \/ ConnectProbe2(p) \/ ConnectBump2(p)
        \/ ConnectDial(p) \/ ConnectReady(p)

SpecCoalesce == Init /\ [][NextCoalesce]_vars

\* Connect calls alone, in an environment where dials may fail, links may be
\* lost and contexts may be cancelled.
NextConnect ==
    \/ \E p \in Callers : Connect(p)
    \/ \E c \in ClientIdx : LinkDown(c)

SpecConnect == Init /\ [][NextConnect]_vars

\* One identity, and the params that name it.
TheID == MakeSessionID("u", "h1", 22)
ParamsOf(id) ==
    {params \in ParamSet :
        MakeSessionID(params.User, params.Host, params.Port) = id}

\* The callers' operations on one identity, concurrently; no clock and no
\* command counting.
NextSession ==
    \/ \E p \in Callers :
         \/ \E params \in ParamsOf(TheID) : ConnectStart(p, params)
         \/ ConnectSteps(p)
         \/ GetStart(p, TheID) \/ GetSteps(p) \/ Release(p)
         \/ DisconnectStart(p, TheID) \/ DisconnectWait(p)
    \/ \E c \in ClientIdx : LinkDown(c)

SpecSession == Init /\ [][NextSession]_vars

\* One goroutine calling the pool's operations in sequence (so that no
\* other attempt is ever found under the pool lock), with the clock and the
\* command counting.
NextSequential ==
    \/ \E params \in ParamSet : ConnectStart("c1", params)
    \/ ConnectWait1("c1") \/ ConnectCtx1("c1")
    \/ ConnectProbe1("c1") \/ ConnectBump1("c1") \/ ConnectRmDead("c1")
    \/ ConnectCloseDead("c1") \/ ConnectAuth("c1") \/ ConnectLock("c1")
    \/ ConnectDial("c1") \/ ConnectReady("c1")
    \/ ConnectDialErr("c1") \/ ConnectFail("c1") \/ ConnectFailClose("c1")
    \/ GetConnection("c1")
    \/ IncrementCommandCount("c1") \/ Release("c1")
    \/ Disconnect("c1")
    \/ \E c \in ClientIdx : LinkDown(c)
    \/ Tick

SpecSequential == Init /\ [][NextSequential]_vars

\* Shutdown: callers connecting while CloseAll runs.
NextShutdown ==
    \/ \E p \in Callers : Connect(p)
    \/ CloseAll(Closer)

SpecShutdown == Init /\ [][NextShutdown]_vars

\* ================================================================ claims

\* The goroutines whose ssh.Dial for id is in flight: the initial dial of
\* Connect or the redial of GetConnection.
Dialing(id) == {p \in Procs : pc[p] \in {"c_dial", "g_dial"} /\ loc[p].id = id}

\* C1: with max_connections = N > 0 the pool map holds at most N entries,
\* pending reservations included, in every reachable state.
C1_CapRespected == MaxConnections > 0 => PoolLen <= MaxConnections

\* C2: at any moment at most one ssh.Dial is in flight for a SessionID,
\* counting the initial dial of Connect and the redial of GetConnection.
C2_AtMostOneDial == \A id \in SessionIDs : Cardinality(Dialing(id)) <= 1

\* The clients that have been dialed to the address of id.
DialedFor(id) ==
    {c \in ClientIdx : clients[c].st # "unused" /\ clients[c].addr = MakeAddr(id[2], id[3])}

\* C3: when Connect calls for one identity overlap, every dial succeeds and
\* the session stays live, one dial is made for the identity and each call
\* returns the identity without error; the only error a call can get is the
\* full pool, when the pool holds another identity.
C3_OneDialBothReturn ==
    /\ \A id \in SessionIDs :
          Cardinality(DialedFor(id)) + Cardinality(Dialing(id)) <= 1
    /\ ret.op = "Connect" =>
          \/ /\ ret.err = ""
             /\ conns[ret.id] # NoSess
             /\ sess[conns[ret.id]].ready
             /\ ~sess[conns[ret.id]].connectErr
             /\ sess[conns[ret.id]].Connected
             /\ DialedFor(ret.id) = {sess[conns[ret.id]].Client}
          \/ /\ ret.err = "full"
             /\ conns[ret.id] = NoSess
             /\ PoolLen >= MaxConnections

\* A Connect call that built its own pending session (it started before any
\* reservation was in the pool) returns the id of the other call's session.
C3_LoserAdopted ==
    /\ ret.op = "Connect"
    /\ ret.err = ""
    /\ ret.pending # NoSess
    /\ conns[ret.id] # NoSess
    /\ conns[ret.id] # ret.pending
    /\ Cardinality(DialedFor(ret.id)) = 1

\* C4 as stated: a Connect call never fails merely because it lost a
\* reservation race.
C4_NeverFailsOnRace == ~(ret.op = "Connect" /\ ret.err = "concurrent")

\* C4, amended: a Connect call that finds another reservation under the pool
\* lock waits on it; it returns the id when that attempt succeeded and the
\* session is live, the context error when cancelled during the wait, and
\* otherwise takes the pool lock again and places its own reservation to
\* dial itself, unless the awaited reservation has left the pool and another
\* one is there: then it fails with "concurrent connection attempt".
C4_LoserAdoptsOrRetries ==
    [][\A p \in Callers :
        LET id == loc[p].id
            e == loc[p].existing
            o == loc[p].pending IN
        /\ (pc[p] = "c_lock" /\ pc'[p] # "c_lock" /\ conns[id] # NoSess)
              => pc'[p] = "c_wait2" /\ loc'[p].existing = conns[id]
        /\ (pc[p] = "c_wait2" /\ pc'[p] # "c_wait2")
              => \/ ret'.by = p /\ ret'.err = "ctx"
                 \/ /\ sess[e].ready
                    /\ pc'[p] = IF sess[e].connectErr THEN "c_relock" ELSE "c_probe2"
        /\ (pc[p] = "c_probe2" /\ pc'[p] # "c_probe2")
              => pc'[p] = IF ProbeAlive(e) THEN "c_bump2" ELSE "c_relock"
        /\ (pc[p] = "c_bump2" /\ pc'[p] # "c_bump2")
              => /\ ret' = Ret(p, "Connect", id, NoSess, "", o)
                 /\ sess[e].ready /\ ~sess[e].connectErr
        /\ (pc[p] = "c_relock" /\ pc'[p] # "c_relock")
              => \/ /\ pc'[p] = "c_dial"
                    /\ conns'[id] = o
                    /\ loc'[p].pending = o
                    /\ ~ThirdReservation(id, o) \/ StillInstance(id, e)
                 \/ /\ ret' = Ret(p, "Connect", id, NoSess, "concurrent", o)
                    /\ ThirdReservation(id, o)
                    /\ ~StillInstance(id, e)
                    /\ conns' = conns
      ]_vars

\* A Connect call has given up because a third reservation was in the pool.
C4_GaveUp ==
    /\ ret.op = "Connect"
    /\ ret.err = "concurrent"
    /\ conns[ret.id] # NoSess
    /\ conns[ret.id] # ret.pending

\* C5: CloseAll returns once every in-flight dial has completed: it is never
\* waiting, with the pool lock held, for the ready signal of a reservation
\* whose dial has failed and whose Connect needs the pool lock before it
\* closes ready.
C5_CloseAllNotStuck ==
    ~ /\ pc[Closer] = "a_wait"
      /\ mu = Closer
      /\ ~sess[loc[Closer].conn].ready
      /\ \E p \in Callers : pc[p] = "c_fail" /\ loc[p].pending = loc[Closer].conn

\* C6: a GetConnection that found the session in the pool leaves its wait
\* only when the ready signal is closed or with the context error, and
\* "session not found" is returned only by the lookup that finds no entry.
C6_GetWaitsForReady ==
    [][\A p \in Callers :
        /\ (pc[p] = "g_wait" /\ pc'[p] # "g_wait")
              => \/ sess[loc[p].conn].ready
                 \/ ret' = Ret(p, "GetConnection", loc[p].id, NoSess, "ctx", NoSess)
        /\ (ret'.by = p /\ ret'.op = "GetConnection" /\ ret'.err = "notfound")
              => pc[p] = "idle" /\ conns[ret'.id] = NoSess
      ]_vars

\* A GetConnection is waiting on a pending reservation that is in the pool.
C6_WaitingOnPending ==
    \E p \in Callers :
        /\ pc[p] = "g_wait"
        /\ ~sess[loc[p].conn].ready
        /\ conns[loc[p].id] = loc[p].conn

\* The clients that the step takes into use.
NewClients == {c \in ClientIdx : clients[c].st = "unused" /\ clients'[c].st # "unused"}

\* C7: a GetConnection whose liveness probe fails closes the old client and
\* makes one redial with the session's saved address and configuration.  On
\* success the same pool entry is returned with the new client, Connected
\* true and ID, ConnectedAt and CommandCount unchanged; on failure the dial
\* error is returned at once and the session stays in the pool with
\* Connected false.
C7_ReconnectOnce ==
    [][LET p == "c1"
           id == loc[p].id
           o == loc[p].conn IN
        /\ (pc[p] = "g_probe" /\ pc'[p] # "g_probe")
              => pc'[p] = IF ProbeAlive(o) THEN "g_bump" ELSE "g_close"
        /\ (pc[p] = "g_close" /\ pc'[p] # "g_close")
              => /\ pc'[p] = "g_dial"
                 /\ sess[o].Client # NoClient
                       => clients'[sess[o].Client].st = "closed"
                 /\ sess'[o] = [sess[o] EXCEPT !.Connected = FALSE]
                 /\ loc'[p].addr = sess[o].addr
                 /\ loc'[p].clientConfig = sess[o].clientConfig
                 /\ NewClients = {}
                 /\ conns' = conns /\ conns[id] = o
        /\ (pc[p] = "g_dial" /\ pc'[p] # "g_dial")
              => \/ /\ ret' = Ret(p, "GetConnection", id, o, "", NoSess)
                    /\ conns' = conns /\ conns[id] = o
                    /\ NewClients = {sess'[o].Client}
                    /\ clients'[sess'[o].Client] =
                          Dialed(sess[o].addr, sess[o].clientConfig, o)
                    /\ sess'[o] = [sess[o] EXCEPT !.Client = sess'[o].Client,
                                                  !.Connected = TRUE,
                                                  !.LastUsed = now]
                    /\ sess'[o].ID = id
                    /\ sess'[o].ConnectedAt = sess[o].ConnectedAt
                    /\ sess'[o].CommandCount = sess[o].CommandCount
                 \/ /\ ret' = Ret(p, "GetConnection", id, NoSess, "redial", NoSess)
                    /\ pc'[p] = "idle"
                    /\ conns' = conns /\ conns[id] = o
                    /\ sess' = sess /\ ~sess[o].Connected
                    /\ NewClients = {}
      ]_vars

\* GetConnection has returned a session it reconnected, later than the
\* session's first connection and after a command was counted on it.
C7_Reconnected ==
    /\ ret.op = "GetConnection"
    /\ ret.err = ""
    /\ sess[ret.conn].ConnectedAt < sess[ret.conn].LastUsed
    /\ sess[ret.conn].CommandCount > 0
    /\ clients[sess[ret.conn].Client].st = "up"
    /\ \E c \in ClientIdx : c # sess[ret.conn].Client /\ clients[c].st = "reclaimed"

\* The step changes no session that the pool or a goroutine of P holds, and
\* no client of such a session.
HeldUnchanged(P) ==
    \A o \in Referenced(conns, [q \in Procs |-> IF q \in P THEN loc[q] ELSE BlankLocals],
                        NoRet) \ {NoSess} :
        /\ sess'[o] = sess[o]
        /\ sess[o].Client # NoClient
              => clients'[sess[o].Client] = clients[sess[o].Client]

\* C8: Disconnect removes the entry at once, leaves its wait only when the
\* session's ready signal is closed, and only then marks the session
\* disconnected and closes its client; when it returns without "not found"
\* the session is not in the pool, its Connected is false and its client, if
\* any, is closed.  Disconnect of an id that is not in the pool returns the
\* error and changes nothing.
C8_DisconnectOrder ==
    [][\A p \in Callers :
        /\ (pc[p] = "idle" /\ pc'[p] = "d_wait")
              => /\ conns[loc'[p].id] # NoSess
                 /\ loc'[p].conn = conns[loc'[p].id]
                 /\ conns' = [conns EXCEPT ![loc'[p].id] = NoSess]
                 /\ HeldUnchanged(Procs)
        /\ (pc[p] = "d_wait" /\ pc'[p] # "d_wait")
              => /\ sess[loc[p].conn].ready
                 /\ ret'.by = p /\ ret'.op = "Disconnect"
                 /\ ret'.conn = loc[p].conn /\ ret'.err \in {"", "close"}
        /\ (ret'.by = p /\ ret'.op = "Disconnect" /\ ret'.err # "notfound")
              => /\ pc[p] = "d_wait"
                 /\ \A id \in SessionIDs : conns'[id] # ret'.conn
                 /\ sess'[ret'.conn].ready
                 /\ ~sess'[ret'.conn].Connected
                 /\ sess'[ret'.conn].Client # NoClient
                       => clients'[sess'[ret'.conn].Client].st = "closed"
        /\ (ret'.by = p /\ ret'.op = "Disconnect" /\ ret'.err = "notfound")
              => /\ pc[p] = "idle"
                 /\ conns[ret'.id] = NoSess
                 /\ UNCHANGED <<conns, mu>>
                 /\ HeldUnchanged(Procs)
                 /\ \A q \in Procs \ {p} : pc'[q] = pc[q] /\ loc'[q] = loc[q]
      ]_vars

\* Disconnect has returned after it waited for a session that was connected
\* in the meantime: the session has a client, and it is closed.
C8_Disconnected ==
    /\ ret.op = "Disconnect"
    /\ ret.err = ""
    /\ sess[ret.conn].Client # NoClient
    /\ clients[sess[ret.conn].Client].st = "closed"
    /\ conns[ret.id] # ret.conn

\* C9: a Connect or GetConnection whose context is cancelled while it waits
\* on a ready signal returns the context error; the pool map, the sessions
\* in the pool with their clients, and every other goroutine (the one
\* dialing for the reservation included) are as they were.
C9_CancelDisturbsNothing ==
    [][\A p \in Callers :
        (ret'.by = p /\ ret'.err = "ctx")
           => /\ pc[p] \in {"c_wait1", "c_wait2", "g_wait"}
              /\ pc'[p] = "idle"
              /\ conns' = conns
              /\ mu' = mu
              /\ HeldUnchanged(Procs \ {p})
              /\ \A q \in Procs \ {p} : pc'[q] = pc[q] /\ loc'[q] = loc[q]
      ]_vars

\* A call has returned the context error while the reservation it waited
\* on is in the pool, its ready signal open and its dial in flight.
C9_CancelledDuringDial ==
    /\ ret.err = "ctx"
    /\ conns[ret.id] # NoSess
    /\ ~sess[conns[ret.id]].ready
    /\ \E q \in Callers : pc[q] = "c_dial" /\ loc[q].pending = conns[ret.id]

\* C10: a GetConnection that waits on a session whose connect attempt failed
\* returns the "connection failed" error (or the context error): it returns
\* no session and not "session not found".
C10_FailedAttemptReported ==
    [][\A p \in Callers :
        /\ (pc[p] = "g_wait" /\ sess[loc[p].conn].connectErr /\ pc'[p] # "g_wait")
              => /\ ret'.by = p /\ ret'.op = "GetConnection"
                 /\ ret'.err \in {"connfailed", "ctx"}
                 /\ ret'.conn = NoSess
                 /\ pc'[p] = "idle"
        /\ (ret'.by = p /\ ret'.err = "connfailed")
              => /\ pc[p] = "g_wait"
                 /\ sess[loc[p].conn].ready
                 /\ sess[loc[p].conn].connectErr
      ]_vars

\* GetConnection has returned "connection failed".
C10_ConnFailedReturned ==
    /\ ret.op = "GetConnection"
    /\ ret.err = "connfailed"
    /\ ret.conn = NoSess

\* ============================================================ idle cleanup

\* One goroutine connecting to and using one identity while the idle cleanup
\* runs.
NextIdle ==
    \/ \E params \in ParamsOf(TheID) : ConnectStart("c1", params)
    \/ ConnectWait1("c1") \/ ConnectCtx1("c1")
    \/ ConnectProbe1("c1") \/ ConnectBump1("c1") \/ ConnectRmDead("c1")
    \/ ConnectCloseDead("c1") \/ ConnectAuth("c1") \/ ConnectLock("c1")
    \/ ConnectDial("c1") \/ ConnectReady("c1")
    \/ ConnectDialErr("c1") \/ ConnectFail("c1") \/ ConnectFailClose("c1")
    \/ GetStart("c1", TheID) \/ GetSteps("c1") \/ Release("c1")
    \/ \E c \in ClientIdx : LinkDown(c)
    \/ Tick
    \/ cleanupIdle(Janitor)

SpecIdle == Init /\ [][NextIdle]_vars

\* C11: the idle scan holds the pool's read lock while it ranges over the
\* map, so the map does not change under it; it visits every entry once
\* and selects an id exactly when, at that visit, the session is ready,
\* connected and idle for longer than max_idle, so never a session whose
\* ready signal is open; it changes nothing, and the Disconnect of a
\* selected id comes in a later step, with the pool lock released.
C11_CleanupSelectsReadyIdle ==
    [][/\ (pc[Janitor] = "idle" /\ pc'[Janitor] # "idle")
             => /\ pc'[Janitor] = "k_scan"
                /\ mu = NoProc /\ mu' = NoProc
                /\ loc'[Janitor].toVisit = {id \in SessionIDs : conns[id] # NoSess}
                /\ loc'[Janitor].toDisconnect = {}
       /\ pc[Janitor] = "k_scan"
             => /\ conns' = conns
                /\ mu' = NoProc
       /\ (pc[Janitor] = "k_scan" /\ loc'[Janitor] # loc[Janitor])
             => /\ pc'[Janitor] = "k_scan"
                /\ \E id \in loc[Janitor].toVisit :
                      /\ loc'[Janitor].toVisit = loc[Janitor].toVisit \ {id}
                      /\ loc'[Janitor].toDisconnect =
                            loc[Janitor].toDisconnect \cup
                              (IF /\ sess[conns[id]].ready
                                  /\ sess[conns[id]].Connected
                                  /\ now - sess[conns[id]].LastUsed > MaxIdleTime
                               THEN {id} ELSE {})
                /\ sess' = sess /\ clients' = clients
                /\ HeldUnchanged(Procs)
       /\ (pc[Janitor] = "k_scan" /\ pc'[Janitor] # "k_scan")
             => /\ pc'[Janitor] = "k_loop"
                /\ loc[Janitor].toVisit = {}
                /\ loc'[Janitor] = loc[Janitor]
       /\ (pc[Janitor] = "k_loop" /\ pc'[Janitor] = "k_wait")
             => /\ mu = NoProc /\ mu' = NoProc
                /\ Readers = {}
                /\ loc'[Janitor].id \in loc[Janitor].toDisconnect
                /\ loc'[Janitor].conn = conns[loc'[Janitor].id]
                /\ conns' = [conns EXCEPT ![loc'[Janitor].id] = NoSess]
       /\ (pc[Janitor] = "k_wait" /\ pc'[Janitor] # "k_wait")
             => sess[loc[Janitor].conn].ready
      ]_vars

\* The scan has visited every entry and selected nothing while the pool
\* holds a session that is connected and idle but whose ready signal is
\* still open.
C11_PendingNotSelected ==
    /\ pc[Janitor] = "k_scan"
    /\ loc[Janitor].toVisit = {}
    /\ loc[Janitor].toDisconnect = {}
    /\ \E id \in SessionIDs :
          /\ conns[id] # NoSess
          /\ ~sess[conns[id]].ready
          /\ sess[conns[id]].Connected
          /\ now - sess[conns[id]].LastUsed > MaxIdleTime

\* ========================================================= ListConnections

\* The zero value of time.Time, which no clock reading equals.
ZeroTime == -1

\* pool.go:361-370: the info of a ready session, read under its lock.
ReadyInfo(o) ==
    [SessionID |-> sess[o].ID, Host |-> sess[o].Host, Port |-> sess[o].Port,
     User |-> sess[o].User, ConnectedAt |-> sess[o].ConnectedAt,
     LastUsed |-> sess[o].LastUsed, CommandCount |-> sess[o].CommandCount,
     Connected |-> sess[o].Connected]

\* pool.go:374-380: the info of a pending session: identity only, the other
\* fields keep their zero values.
PendingInfo(o) ==
    [SessionID |-> sess[o].ID, Host |-> sess[o].Host, Port |-> sess[o].Port,
     User |-> sess[o].User, ConnectedAt |-> ZeroTime, LastUsed |-> ZeroTime,
     CommandCount |-> 0, Connected |-> FALSE]

\* pool.go:357-381: select on ready, without blocking.
InfoOf(o) == IF sess[o].ready THEN ReadyInfo(o) ELSE PendingInfo(o)

\* pool.go:350: ListConnections is called; its first statement asks for
\* the pool's read lock.
ListCall(p) ==
    /\ pc[p] = "idle"
    /\ Goto(p, "l_lock", BlankLocals, conns, sess, clients)

\* pool.go:351-355: take the pool's read lock, which is granted while no
\* goroutine holds the lock for writing, and start the range over the map,
\* which cannot change while the lock is held.
ListStart(p) ==
    /\ pc[p] = "l_lock"
    /\ PoolRLockFree
    /\ Goto(p, "l_scan",
            [BlankLocals EXCEPT !.toVisit = {id \in SessionIDs : conns[id] # NoSess}],
            conns, sess, clients)

\* pool.go:355-382: one iteration of the range loop: the info of the next
\* entry, in no particular order, read under the entry's own lock.
ListVisit(p) ==
    /\ pc[p] = "l_scan"
    /\ \E id \in loc[p].toVisit :
          Goto(p, "l_scan",
               [loc[p] EXCEPT !.toVisit = @ \ {id},
                              !.infos = @ \cup {InfoOf(conns[id])}],
               conns, sess, clients)

\* pool.go:383 with the deferred RUnlock of 352: return the infos (the order
\* of a map range is unspecified: a set).
ListReturn(p) ==
    /\ pc[p] = "l_scan"
    /\ loc[p].toVisit = {}
    /\ Return(p, [Ret(p, "ListConnections", NoID, NoSess, "", NoSess)
                     EXCEPT !.infos = loc[p].infos],
              conns, sess, clients)

ListConnections(p) ==
    ListCall(p) \/ ListStart(p) \/ ListVisit(p) \/ ListReturn(p)

\* One goroutine connecting to, using and dropping one identity while
\* another lists the connections and the server shuts the pool down.
NextList ==
    \/ \E params \in ParamsOf(TheID) : ConnectStart("c1", params)
    \/ ConnectWait1("c1") \/ ConnectCtx1("c1")
    \/ ConnectProbe1("c1") \/ ConnectBump1("c1") \/ ConnectRmDead("c1")
    \/ ConnectCloseDead("c1") \/ ConnectAuth("c1") \/ ConnectLock("c1")
    \/ ConnectDial("c1") \/ ConnectReady("c1")
    \/ ConnectDialErr("c1") \/ ConnectFail("c1") \/ ConnectFailClose("c1")
    \/ GetStart("c1", TheID) \/ GetSteps("c1")
    \/ IncrementCommandCount("c1") \/ Release("c1")
    \/ DisconnectStart("c1", TheID) \/ DisconnectWait("c1")
    \/ \E c \in ClientIdx : LinkDown(c)
    \/ Tick
    \/ ListConnections("c2")
    \/ CloseAll(Closer)

SpecList == Init /\ [][NextList]_vars

\* A ListConnections call of p waits for the pool lock, which its holder
\* keeps while it waits for the ready signal of a dial that is pending.
BlockedOnDial(p) ==
    /\ pc[p] = "l_lock"
    /\ mu \in Procs
    /\ pc[mu] = "a_wait"
    /\ ~sess[loc[mu].conn].ready

\* C12: ListConnections never blocks on a pending dial: a call never waits
\* for the pool lock behind a goroutine that waits for a ready signal; it
\* holds the pool's read lock from its first step to its return and waits
\* for nothing else.  Each entry is read once: a session whose ready signal
\* is open is reported with its id, host, port and user and connected =
\* false (no timestamps, no count); a ready session is reported with the
\* connected flag, timestamps and command count it has when it is read.
\* What is returned has one entry per entry of the pool.
C12_ListNeverBlocks ==
    [][\A p \in Callers :
        /\ ~BlockedOnDial(p)
        /\ pc[p] = "l_scan" => conns' = conns /\ mu' = NoProc
        /\ (pc[p] = "l_scan" /\ pc'[p] = "l_scan" /\ loc'[p] # loc[p])
              => \E id \in loc[p].toVisit :
                   LET o == conns[id] IN
                   /\ loc'[p].toVisit = loc[p].toVisit \ {id}
                   /\ \E i \in loc'[p].infos :
                        /\ loc'[p].infos = loc[p].infos \cup {i}
                        /\ i.SessionID = id
                        /\ i.User = id[1] /\ i.Host = id[2] /\ i.Port = id[3]
                        /\ IF sess[o].ready
                           THEN /\ i.Connected = sess[o].Connected
                                /\ i.ConnectedAt = sess[o].ConnectedAt
                                /\ i.LastUsed = sess[o].LastUsed
                                /\ i.CommandCount = sess[o].CommandCount
                           ELSE /\ i.Connected = FALSE
                                /\ i.ConnectedAt = ZeroTime
                                /\ i.LastUsed = ZeroTime
                                /\ i.CommandCount = 0
        /\ (pc[p] = "l_scan" /\ pc'[p] # "l_scan")
              => /\ ret'.op = "ListConnections" /\ ret'.by = p
                 /\ ret'.infos = loc[p].infos
                 /\ Cardinality(ret'.infos) = PoolLen
                 /\ {i.SessionID : i \in ret'.infos}
                       = {id \in SessionIDs : conns[id] # NoSess}
      ]_vars

\* ================================================================== Filter

\* Strings are sequences of one-character strings.  The characters of the
\* inputs given to the filter, one of them an upper-case letter past ASCII,
\* and the characters of its patterns: literals, the alternation bar, the
\* two anchors, the dot and the star.
MaxInputLen == 2
MaxPatLen == 3
MaxListLen == 1
InputChars == {"a", "A", "b", "É"}
PatternChars == {"a", "A", "b", "|", "^", "$", ".", "*"}

\* All strings over the characters cs of length lo..hi.
StringsOver(cs, lo, hi) == UNION {[1..k -> cs] : k \in lo..hi}

\* ------------------------------------------------------------- characters

\* The printable ASCII characters in code order, code 32 (space) to 126.  The
\* grave accent (code 96) cannot be written in a string of this language and
\* is written chr96.
Printable ==
    <<" ", "!", "\"", "#", "$", "%", "&", "'", "(", ")", "*", "+", ",", "-", ".", "/",
      "0", "1", "2", "3", "4", "5", "6", "7", "8", "9", ":", ";", "<", "=", ">", "?",
      "@", "A", "B", "C", "D", "E", "F", "G", "H", "I", "J", "K", "L", "M", "N", "O",
      "P", "Q", "R", "S", "T", "U", "V", "W", "X", "Y", "Z", "[", "\\", "]", "^", "_",
      "chr96", "a", "b", "c", "d", "e", "f", "g", "h", "i", "j", "k", "l", "m", "n", "o",
      "p", "q", "r", "s", "t", "u", "v", "w", "x", "y", "z", "{", "|", "}", "~">>

\* The control characters that have a name in a string: code |-> character.
Controls == [c \in {9, 10, 12, 13} |->
                IF c = 9 THEN "\t" ELSE IF c = 10 THEN "\n" ELSE IF c = 12 THEN "\f" ELSE "\r"]

\* The runes past ASCII that a string of the model can hold, each with its
\* code point, unicode.ToLower of it, its general category, its script and
\* its orbit under unicode.SimpleFold (Unicode 15.0.0, the tables of the
\* go 1.24 named in go.mod).  The long s (U+017F) and the Kelvin sign
\* (U+212A) cannot be written in a string of this language and are written
\* chr383 and chr8490.
WideRunes ==
    {[c |-> "É", code |-> 201, lower |-> 233, cat |-> "Lu", script |-> "Latin", orbit |-> {201, 233}],
     [c |-> "é", code |-> 233, lower |-> 233, cat |-> "Ll", script |-> "Latin", orbit |-> {201, 233}],
     [c |-> "chr383", code |-> 383, lower |-> 383, cat |-> "Ll", script |-> "Latin", orbit |-> {83, 115, 383}],
     [c |-> "Σ", code |-> 931, lower |-> 963, cat |-> "Lu", script |-> "Greek", orbit |-> {931, 962, 963}],
     [c |-> "ς", code |-> 962, lower |-> 962, cat |-> "Ll", script |-> "Greek", orbit |-> {931, 962, 963}],
     [c |-> "σ", code |-> 963, lower |-> 963, cat |-> "Ll", script |-> "Greek", orbit |-> {931, 962, 963}],
     [c |-> "۳", code |-> 1779, lower |-> 1779, cat |-> "Nd", script |-> "Arabic", orbit |-> {1779}],
     [c |-> "chr8490", code |-> 8490, lower |-> 107, cat |-> "Lu", script |-> "Latin", orbit |-> {75, 107, 8490}],
     [c |-> "日", code |-> 26085, lower |-> 26085, cat |-> "Lo", script |-> "Han", orbit |-> {26085}]}
WideCodes == {w.code : w \in WideRunes}
WideOf(code) == CHOOSE w \in WideRunes : w.code = code

\* The character of a code; a code with no character above is written
\* chr<code>.
CharOf(code) ==
    IF code \in 32..126 THEN Printable[code - 31]
    ELSE IF code \in DOMAIN Controls THEN Controls[code]
    ELSE IF code \in WideCodes THEN WideOf(code).c
    ELSE "chr" \o ToString(code)

AsciiChars == {CharOf(code) : code \in 0..127}

\* The runes of the model's strings, and the code point of each.  A string
\* of the program is valid UTF-8 (it is decoded from JSON), so every
\* character of it is a rune.
Runes == {CharOf(code) : code \in (0..127) \cup WideCodes}
CodeOf == [c \in Runes |-> CHOOSE code \in (0..127) \cup WideCodes : CharOf(code) = c]
Code(c) == CodeOf[c]

\* The characters with codes from that of lo to that of hi.
CharRange(lo, hi) == {c \in Runes : Code(lo) <= CodeOf[c] /\ CodeOf[c] <= Code(hi)}

Digits == {"0", "1", "2", "3", "4", "5", "6", "7", "8", "9"}
OctalDigits == {"0", "1", "2", "3", "4", "5", "6", "7"}
UpperCase ==
    {"A", "B", "C", "D", "E", "F", "G", "H", "I", "J", "K", "L", "M",
     "N", "O", "P", "Q", "R", "S", "T", "U", "V", "W", "X", "Y", "Z"}
LowerCase ==
    {"a", "b", "c", "d", "e", "f", "g", "h", "i", "j", "k", "l", "m",
     "n", "o", "p", "q", "r", "s", "t", "u", "v", "w", "x", "y", "z"}
Letters == UpperCase \cup LowerCase
WordChars == Letters \cup Digits \cup {"_"}
HexDigits == Digits \cup {"a", "b", "c", "d", "e", "f", "A", "B", "C", "D", "E", "F"}

\* unicode.ToLower of a code point.
LowerOf(code) ==
    IF code \in 65..90 THEN code + 32
    ELSE IF code < 128 THEN code
    ELSE WideOf(code).lower

\* The orbit of a code point under unicode.SimpleFold: the code points that
\* differ from it by case only.  The Kelvin sign folds with K and k, the
\* long s with S and s.
Orbit(code) ==
    IF code \in {75, 107} THEN {75, 107, 8490}
    ELSE IF code \in {83, 115} THEN {83, 115, 383}
    ELSE IF code \in 65..90 THEN {code, code + 32}
    ELSE IF code \in 97..122 THEN {code, code - 32}
    ELSE IF code < 128 THEN {code}
    ELSE WideOf(code).orbit

\* The general category of a code point (the keys of unicode.Categories).
Category(code) ==
    IF code \in (0..31) \cup {127} THEN "Cc"
    ELSE IF code = 32 THEN "Zs"
    ELSE IF code \in 48..57 THEN "Nd"
    ELSE IF code \in 65..90 THEN "Lu"
    ELSE IF code \in 97..122 THEN "Ll"
    ELSE IF code = 95 THEN "Pc"
    ELSE IF code = 45 THEN "Pd"
    ELSE IF code \in {40, 91, 123} THEN "Ps"
    ELSE IF code \in {41, 93, 125} THEN "Pe"
    ELSE IF code = 36 THEN "Sc"
    ELSE IF code \in {94, 96} THEN "Sk"
    ELSE IF code \in {43, 60, 61, 62, 124, 126} THEN "Sm"
    ELSE IF code < 128 THEN "Po"
    ELSE WideOf(code).cat

\* The script of a code point (the keys of unicode.Scripts).
Script(code) ==
    IF code \in (65..90) \cup (97..122) THEN "Latin"
    ELSE IF code < 128 THEN "Common"
    ELSE WideOf(code).script

\* strings.ToLower: unicode.ToLower of every rune.
ToLowerChar(c) == CharOf(LowerOf(Code(c)))
ToLower(str) == [i \in DOMAIN str |-> ToLowerChar(str[i])]

\* strings.HasPrefix / strings.HasSuffix with a one-character argument.
HasPrefix(str, c) == Len(str) > 0 /\ str[1] = c
HasSuffix(str, c) == Len(str) > 0 /\ str[Len(str)] = c

\* The character at index i of a string, "" past its end.
At(str, i) == IF i \in DOMAIN str THEN str[i] ELSE ""

\* The value of a decimal, octal or hexadecimal digit.
DigitVal(c) ==
    IF c \in Digits THEN CodeOf[c] - 48
    ELSE IF c \in LowerCase THEN CodeOf[c] - 87
    ELSE CodeOf[c] - 55

\* ---------------------------------------------------- regexp: the parser

\* regexp.Compile parses with the Perl flags.  syntax.parse keeps a stack of
\* nodes and of two markers, the open parenthesis "(" and the vertical bar
\* "|".  A node is a character class ("set", which a literal is too), the
\* dot ("any"), an empty-width assertion ("bol", "eol", "wb", "nwb"), a
\* concatenation ("cat"), an alternation ("alt") or a repetition of its one
\* child lo..hi times ("star" for * + ?, "repeat" for {n,m}; hi is -1 when
\* there is no upper bound).  The flags are i (fold case), m (multi-line)
\* and s (dot matches \n); "bol", "eol" and "any" keep the flags in force
\* where they were parsed, "(" the flags to restore at its ")".
\* The nesting and size limits of syntax.checkLimits take an expression of
\* more than a thousand characters to pass and are left out.
NoFlags == [i |-> FALSE, m |-> FALSE, s |-> FALSE]
Node(t) ==
    [t |-> t, items |-> {}, neg |-> FALSE, kids |-> <<>>, lo |-> 0, hi |-> 0, fl |-> NoFlags]
Flagged(t, fl) == [Node(t) EXCEPT !.fl = fl]
Cat(kids) == [Node("cat") EXCEPT !.kids = kids]
Alt(kids) == [Node("alt") EXCEPT !.kids = kids]
Rep(t, n, lo, hi) == [Node(t) EXCEPT !.kids = <<n>>, !.lo = lo, !.hi = hi]

\* A class is the union of its items, negated or not.  An item is a set of
\* ranges <<lo, hi>> of code points or the table of a Unicode category or
\* script, folded (every rune that differs by case only from one of its
\* runes is added: appendFoldedRange, appendFoldedClass, the fold tables)
\* and after that negated or not.
Item(ranges, table, fold, neg) ==
    [ranges |-> ranges, table |-> table, fold |-> fold, neg |-> neg]
Class(items, neg) == [Node("set") EXCEPT !.items = items, !.neg = neg]

\* syntax.newLiteral: under the i flag a literal matches its orbit.
Lit(code, fl) == Class({Item({<<code, code>>}, "", fl.i, FALSE)}, FALSE)

\* The state of the parser: the index of the next character, the stack, the
\* flags in force and whether the last thing parsed was a repetition
\* operator (lastRepeat); BadParse is a syntax error.
BadParse == [ok |-> FALSE, i |-> 0, stack |-> <<>>, fl |-> NoFlags, last |-> FALSE]

\* parser.push / parser.op: one more node on the stack, the expression going
\* on at index j.
Push(st, n, j) == [st EXCEPT !.stack = Append(@, n), !.i = j, !.last = FALSE]

\* A code point of a class or of an escape.
OkChar(c, i) == [ok |-> TRUE, c |-> c, i |-> i]
BadChar == [ok |-> FALSE, c |-> 0, i |-> 0]

\* The characters of a sequence as one string.
RECURSIVE Str(_)
Str(s) == IF s = <<>> THEN "" ELSE Head(s) \o Str(Tail(s))

\* The index after the run of characters of cs that starts at i.
RECURSIVE RunEnd(_, _, _)
RunEnd(re, i, cs) == IF At(re, i) \in cs THEN RunEnd(re, i + 1, cs) ELSE i

\* The first index at or after i of the character c; 0 if none.
RECURSIVE IndexFrom(_, _, _)
IndexFrom(re, i, c) ==
    IF i > Len(re) THEN 0 ELSE IF re[i] = c THEN i ELSE IndexFrom(re, i + 1, c)

\* The first index at or after i of the character a followed by the
\* character b; 0 if none.
RECURSIVE IndexPair(_, _, _, _)
IndexPair(re, i, a, b) ==
    IF i >= Len(re) THEN 0
    ELSE IF re[i] = a /\ re[i + 1] = b THEN i
    ELSE IndexPair(re, i + 1, a, b)

\* The value of the digits re[i..j-1] in the given base; -1 once it passes
\* the limit.
RECURSIVE Number(_, _, _, _, _, _)
Number(re, i, j, base, limit, acc) ==
    IF i >= j THEN acc
    ELSE IF acc >= limit THEN -1
    ELSE Number(re, i + 1, j, base, limit, acc * base + DigitVal(re[i]))

\* syntax.parseInt: a decimal number without a leading zero, from index i
\* to index j.
IntAt(re, i, j) == [ok |-> TRUE, v |-> Number(re, i, j, 10, 100000000, 0), i |-> j]
parseInt(re, i) ==
    IF At(re, i) \notin Digits \/ (At(re, i) = "0" /\ At(re, i + 1) \in Digits)
    THEN [ok |-> FALSE, v |-> 0, i |-> i]
    ELSE IntAt(re, i, RunEnd(re, i, Digits))

\* syntax.parseRepeat: {n}, {n,} or {n,m} at index i; lo and hi are the two
\* numbers as parsed.
NoRepeat == [ok |-> FALSE, min |-> 0, max |-> 0, i |-> 0]
RepeatHi(re, lo, hi) ==
    IF ~hi.ok \/ At(re, hi.i) # "}" THEN NoRepeat
    ELSE [ok |-> TRUE, min |-> IF hi.v < 0 THEN -1 ELSE lo.v, max |-> hi.v, i |-> hi.i + 1]
RepeatLo(re, lo) ==
    IF ~lo.ok THEN NoRepeat
    ELSE IF At(re, lo.i) = "}" THEN [ok |-> TRUE, min |-> lo.v, max |-> lo.v, i |-> lo.i + 1]
    ELSE IF At(re, lo.i) # "," THEN NoRepeat
    ELSE IF At(re, lo.i + 1) = "}" THEN [ok |-> TRUE, min |-> lo.v, max |-> -1, i |-> lo.i + 2]
    ELSE RepeatHi(re, lo, parseInt(re, lo.i + 1))
parseRepeat(re, i) == IF At(re, i) # "{" THEN NoRepeat ELSE RepeatLo(re, parseInt(re, i + 1))

\* syntax.repeatIsValid: the counts of nested {n,m} multiply to at most k.
RECURSIVE repeatIsValid(_, _)
repeatIsValid(n, k) ==
    IF n.t # "repeat" THEN \A x \in DOMAIN n.kids : repeatIsValid(n.kids[x], k)
    ELSE IF n.hi = 0 THEN TRUE
    ELSE IF n.hi < 0 THEN
        IF n.lo > k THEN FALSE
        ELSE repeatIsValid(n.kids[1], IF n.lo > 0 THEN k \div n.lo ELSE k)
    ELSE IF n.hi > k THEN FALSE
    ELSE repeatIsValid(n.kids[1], k \div n.hi)

\* The code point with the value of the digits re[i..j-1], for an escape
\* that ends before index next.
EscapeValue(re, i, j, base, next) ==
    IF Number(re, i, j, base, 1114112, 0) \in 0..1114111
    THEN OkChar(Number(re, i, j, base, 1114112, 0), next)
    ELSE BadChar

\* An octal escape of up to three digits from index i, its digits running
\* to index e.
OctalEscape(re, i, e) ==
    IF e > i + 3 THEN EscapeValue(re, i, i + 3, 8, i + 3) ELSE EscapeValue(re, i, e, 8, e)

\* A hexadecimal escape in braces whose digits run from index i to index e.
HexEscape(re, i, e) ==
    IF e = i \/ At(re, e) # "}" THEN BadChar ELSE EscapeValue(re, i, e, 16, e + 1)

\* syntax.parseEscape: the code point that the escape at index i (a
\* backslash) stands for, c being the character after the backslash.
EscapeOf(re, i, c) ==
    IF c = "" THEN BadChar
    ELSE IF c \in OctalDigits \ {"0"} /\ At(re, i + 2) \notin OctalDigits THEN BadChar
    ELSE IF c \in OctalDigits THEN OctalEscape(re, i + 1, RunEnd(re, i + 1, OctalDigits))
    ELSE IF c = "x" /\ At(re, i + 2) = "{" THEN HexEscape(re, i + 3, RunEnd(re, i + 3, HexDigits))
    ELSE IF c = "x" THEN
        IF At(re, i + 2) \in HexDigits /\ At(re, i + 3) \in HexDigits
        THEN EscapeValue(re, i + 2, i + 4, 16, i + 4)
        ELSE BadChar
    ELSE IF c = "a" THEN OkChar(7, i + 2)
    ELSE IF c = "f" THEN OkChar(12, i + 2)
    ELSE IF c = "n" THEN OkChar(10, i + 2)
    ELSE IF c = "r" THEN OkChar(13, i + 2)
    ELSE IF c = "t" THEN OkChar(9, i + 2)
    ELSE IF c = "v" THEN OkChar(11, i + 2)
    ELSE IF Code(c) < 128 /\ c \notin Letters \cup Digits THEN OkChar(Code(c), i + 2)
    ELSE BadChar
parseEscape(re, i) == EscapeOf(re, i, At(re, i + 1))

\* syntax.perlGroup: the ranges of \d, \s and \w.
WordRanges == {<<48, 57>>, <<65, 90>>, <<95, 95>>, <<97, 122>>}
PerlClass(c) ==
    IF c \in {"d", "D"} THEN {<<48, 57>>}
    ELSE IF c \in {"s", "S"} THEN {<<9, 10>>, <<12, 13>>, <<32, 32>>}
    ELSE WordRanges

\* syntax.posixGroup: the ranges of the classes [:name:].
PosixNames ==
    {"alnum", "alpha", "ascii", "blank", "cntrl", "digit", "graph", "lower", "print",
     "punct", "space", "upper", "word", "xdigit"}
PosixClass(name) ==
    CASE name = "alnum" -> {<<48, 57>>, <<65, 90>>, <<97, 122>>}
      [] name = "alpha" -> {<<65, 90>>, <<97, 122>>}
      [] name = "ascii" -> {<<0, 127>>}
      [] name = "blank" -> {<<9, 9>>, <<32, 32>>}
      [] name = "cntrl" -> {<<0, 31>>, <<127, 127>>}
      [] name = "digit" -> {<<48, 57>>}
      [] name = "graph" -> {<<33, 126>>}
      [] name = "lower" -> {<<97, 122>>}
      [] name = "print" -> {<<32, 126>>}
      [] name = "punct" -> {<<33, 47>>, <<58, 64>>, <<91, 96>>, <<123, 126>>}
      [] name = "space" -> {<<9, 13>>, <<32, 32>>}
      [] name = "upper" -> {<<65, 90>>}
      [] name = "word" -> WordRanges
      [] name = "xdigit" -> {<<48, 57>>, <<65, 70>>, <<97, 102>>}

\* syntax.unicodeTable: the names of \p{name}: Any, the categories and the
\* scripts.
CategoryNames ==
    {"C", "Cc", "Cf", "Co", "Cs", "L", "Ll", "Lm", "Lo", "Lt", "Lu", "M", "Mc", "Me", "Mn",
     "N", "Nd", "Nl", "No", "P", "Pc", "Pd", "Pe", "Pf", "Pi", "Po", "Ps", "S", "Sc", "Sk",
     "Sm", "So", "Z", "Zl", "Zp", "Zs"}
ScriptNames ==
    {"Adlam", "Ahom", "Anatolian_Hieroglyphs", "Arabic", "Armenian", "Avestan",
     "Balinese", "Bamum", "Bassa_Vah", "Batak", "Bengali", "Bhaiksuki", "Bopomofo",
     "Brahmi", "Braille", "Buginese", "Buhid", "Canadian_Aboriginal", "Carian",
     "Caucasian_Albanian", "Chakma", "Cham", "Cherokee", "Chorasmian", "Common",
     "Coptic", "Cuneiform", "Cypriot", "Cypro_Minoan", "Cyrillic", "Deseret",
     "Devanagari", "Dives_Akuru", "Dogra", "Duployan", "Egyptian_Hieroglyphs",
     "Elbasan", "Elymaic", "Ethiopic", "Georgian", "Glagolitic", "Gothic", "Grantha",
     "Greek", "Gujarati", "Gunjala_Gondi", "Gurmukhi", "Han", "Hangul",
     "Hanifi_Rohingya", "Hanunoo", "Hatran", "Hebrew", "Hiragana", "Imperial_Aramaic",
     "Inherited", "Inscriptional_Pahlavi", "Inscriptional_Parthian", "Javanese",
     "Kaithi", "Kannada", "Katakana", "Kawi", "Kayah_Li", "Kharoshthi",
     "Khitan_Small_Script", "Khmer", "Khojki", "Khudawadi", "Lao", "Latin", "Lepcha",
     "Limbu", "Linear_A", "Linear_B", "Lisu", "Lycian", "Lydian", "Mahajani",
     "Makasar", "Malayalam", "Mandaic", "Manichaean", "Marchen", "Masaram_Gondi",
     "Medefaidrin", "Meetei_Mayek", "Mende_Kikakui", "Meroitic_Cursive",
     "Meroitic_Hieroglyphs", "Miao", "Modi", "Mongolian", "Mro", "Multani", "Myanmar",
     "Nabataean", "Nag_Mundari", "Nandinagari", "New_Tai_Lue", "Newa", "Nko", "Nushu",
     "Nyiakeng_Puachue_Hmong", "Ogham", "Ol_Chiki", "Old_Hungarian", "Old_Italic",
     "Old_North_Arabian", "Old_Permic", "Old_Persian", "Old_Sogdian",
     "Old_South_Arabian", "Old_Turkic", "Old_Uyghur", "Oriya", "Osage", "Osmanya",
     "Pahawh_Hmong", "Palmyrene", "Pau_Cin_Hau", "Phags_Pa", "Phoenician",
     "Psalter_Pahlavi", "Rejang", "Runic", "Samaritan", "Saurashtra", "Sharada",
     "Shavian", "Siddham", "SignWriting", "Sinhala", "Sogdian", "Sora_Sompeng",
     "Soyombo", "Sundanese", "Syloti_Nagri", "Syriac", "Tagalog", "Tagbanwa", "Tai_Le",
     "Tai_Tham", "Tai_Viet", "Takri", "Tamil", "Tangsa", "Tangut", "Telugu", "Thaana",
     "Thai", "Tibetan", "Tifinagh", "Tirhuta", "Toto", "Ugaritic", "Vai", "Vithkuqi",
     "Wancho", "Warang_Citi", "Yezidi", "Yi", "Zanabazar_Square"}
TableNames == {"Any"} \cup CategoryNames \cup ScriptNames

\* The code point is in the table of the name: a category is named by its
\* two letters or by the first of them.
InTable(name, code) ==
    \/ name = "Any"
    \/ name = Category(code)
    \/ \E minor \in {"c", "d", "e", "f", "i", "k", "l", "m", "n", "o", "p", "s", "t", "u"} :
           name \o minor = Category(code)
    \/ name = Script(code)

\* An item of a bracket expression, the items going on at index i.
OkItem(it, i) == [ok |-> TRUE, it |-> it, i |-> i]
BadItem == [ok |-> FALSE, it |-> Item({}, "", FALSE, FALSE), i |-> 0]

\* The table of a name of \p or \P: a leading ^ negates once more.
TableItem(name, fold, neg, i) ==
    IF name \in TableNames THEN OkItem(Item({}, name, fold, neg), i) ELSE BadItem
TableNamed(name, fold, neg, i) ==
    IF HasPrefix(name, "^") THEN TableItem(Str(Tail(name)), fold, ~neg, i)
    ELSE TableItem(Str(name), fold, neg, i)

\* syntax.parseUnicodeClass: \pN, \p{Name} and their negations at index j,
\* e being the index of the first closing brace.
UnicodeClassTo(re, j, e, fl) ==
    IF At(re, j + 2) = "" THEN BadItem
    ELSE IF At(re, j + 2) # "{" THEN TableNamed(<<re[j + 2]>>, fl.i, re[j + 1] = "P", j + 3)
    ELSE IF e = 0 THEN BadItem
    ELSE TableNamed(SubSeq(re, j + 3, e - 1), fl.i, re[j + 1] = "P", e + 1)
parseUnicodeClass(re, j, fl) == UnicodeClassTo(re, j, IndexFrom(re, j, "}"), fl)

\* syntax.parseNamedClass: the item [:name:] or [:^name:], the name running
\* to index k - 1.
ClassNamed(name, k, fl) ==
    IF Str(name) \in PosixNames THEN OkItem(Item(PosixClass(Str(name)), "", fl.i, FALSE), k + 2)
    ELSE IF HasPrefix(name, "^") /\ Str(Tail(name)) \in PosixNames
    THEN OkItem(Item(PosixClass(Str(Tail(name))), "", fl.i, TRUE), k + 2)
    ELSE BadItem

\* syntax.parseClassChar
parseClassChar(re, i) ==
    IF At(re, i) = "" THEN BadChar
    ELSE IF At(re, i) = "\\" THEN parseEscape(re, i)
    ELSE OkChar(Code(re[i]), i + 1)

\* The item lo-hi.
ClassRangeTo(lo, hi, fl) ==
    IF ~hi.ok \/ hi.c < lo.c THEN BadItem
    ELSE OkItem(Item({<<lo.c, hi.c>>}, "", fl.i, FALSE), hi.i)

\* The item that begins with the code point lo: a range or the one rune.
ClassRange(re, lo, fl) ==
    IF ~lo.ok THEN BadItem
    ELSE IF At(re, lo.i) = "-" /\ At(re, lo.i + 1) \notin {"", "]"}
    THEN ClassRangeTo(lo, parseClassChar(re, lo.i + 1), fl)
    ELSE OkItem(Item({<<lo.c, lo.c>>}, "", fl.i, FALSE), lo.i)

\* The item of a bracket expression at index j.
ClassItem(re, j, fl) ==
    IF At(re, j) = "[" /\ At(re, j + 1) = ":" /\ IndexPair(re, j + 2, ":", "]") > 0
    THEN ClassNamed(SubSeq(re, j + 2, IndexPair(re, j + 2, ":", "]") - 1),
                    IndexPair(re, j + 2, ":", "]"), fl)
    ELSE IF At(re, j) = "\\" /\ At(re, j + 1) \in {"p", "P"} THEN parseUnicodeClass(re, j, fl)
    ELSE IF At(re, j) = "\\" /\ At(re, j + 1) \in {"d", "s", "w"}
    THEN OkItem(Item(PerlClass(re[j + 1]), "", fl.i, FALSE), j + 2)
    ELSE IF At(re, j) = "\\" /\ At(re, j + 1) \in {"D", "S", "W"}
    THEN OkItem(Item(PerlClass(re[j + 1]), "", fl.i, TRUE), j + 2)
    ELSE ClassRange(re, parseClassChar(re, j), fl)

\* The loop of syntax.parseClass: the items of a bracket expression from
\* index j to the closing bracket, which is an item when it comes first.
RECURSIVE ClassItems(_, _, _, _, _)
ClassItemsAfter(re, it, fl, items) ==
    IF ~it.ok THEN [ok |-> FALSE, items |-> {}, i |-> 0]
    ELSE ClassItems(re, it.i, FALSE, fl, items \cup {it.it})
ClassItems(re, j, first, fl, items) ==
    IF At(re, j) = "]" /\ ~first THEN [ok |-> TRUE, items |-> items, i |-> j + 1]
    ELSE ClassItemsAfter(re, ClassItem(re, j, fl), fl, items)

\* syntax.parseClass: the bracket expression at index st.i, r being its
\* items; the whole is negated after a leading ^.
ClassOf(st, r, neg) == IF r.ok THEN Push(st, Class(r.items, neg), r.i) ELSE BadParse
parseClass(re, st) ==
    IF At(re, st.i + 1) = "^"
    THEN ClassOf(st, ClassItems(re, st.i + 2, TRUE, st.fl, {}), TRUE)
    ELSE ClassOf(st, ClassItems(re, st.i + 1, TRUE, st.fl, {}), FALSE)

\* The flags of (?flags) and (?flags:re from index j.
RECURSIVE parseFlags(_, _, _, _, _)
parseFlags(re, j, fl, neg, saw) ==
    IF At(re, j) = "i" THEN parseFlags(re, j + 1, [fl EXCEPT !.i = ~neg], neg, TRUE)
    ELSE IF At(re, j) = "m" THEN parseFlags(re, j + 1, [fl EXCEPT !.m = ~neg], neg, TRUE)
    ELSE IF At(re, j) = "s" THEN parseFlags(re, j + 1, [fl EXCEPT !.s = ~neg], neg, TRUE)
    ELSE IF At(re, j) = "U" THEN parseFlags(re, j + 1, fl, neg, TRUE)
    ELSE IF At(re, j) = "-" /\ ~neg THEN parseFlags(re, j + 1, fl, TRUE, FALSE)
    ELSE IF At(re, j) \in {":", ")"} /\ (saw \/ ~neg)
    THEN [ok |-> TRUE, fl |-> fl, i |-> j + 1, colon |-> At(re, j) = ":"]
    ELSE [ok |-> FALSE, fl |-> fl, i |-> 0, colon |-> FALSE]

\* The index of the last marker of the stack at or below index k; 0 if none.
RECURSIVE LastMarker(_, _)
LastMarker(stack, k) ==
    IF k = 0 THEN 0 ELSE IF stack[k].t \in {"(", "|"} THEN k ELSE LastMarker(stack, k - 1)

\* parser.concat and parser.alternate: the nodes above the last marker
\* become one concatenation, one alternation; k is the marker's index.
Collapsed(stack, k, t) ==
    Append(SubSeq(stack, 1, k), [Node(t) EXCEPT !.kids = SubSeq(stack, k + 1, Len(stack))])
concat(stack) == Collapsed(stack, LastMarker(stack, Len(stack)), "cat")
alternate(stack) == Collapsed(stack, LastMarker(stack, Len(stack)), "alt")

\* parser.swapVerticalBar: the concatenation on top goes below the vertical
\* bar under it, if there is one.
HasBar(stack) == Len(stack) >= 2 /\ stack[Len(stack) - 1].t = "|"
Swapped(stack) == SubSeq(stack, 1, Len(stack) - 2) \o <<stack[Len(stack)], stack[Len(stack) - 1]>>

\* syntax.parseVerticalBar, on the stack after concat.
VerticalBar(stack) == IF HasBar(stack) THEN Swapped(stack) ELSE Append(stack, Node("|"))
parseVerticalBar(st) ==
    [st EXCEPT !.stack = VerticalBar(concat(st.stack)), !.i = st.i + 1, !.last = FALSE]

\* The stack without the vertical bar that a swap would bring on top.
DropBar(stack) ==
    IF HasBar(stack) THEN Append(SubSeq(stack, 1, Len(stack) - 2), stack[Len(stack)]) ELSE stack

\* The open group of the stack closed: the stack after concat, the dropping
\* of the bar and alternate.
Closed(stack) == alternate(DropBar(concat(stack)))

\* syntax.parseRightParen, on the closed stack: the alternation on top takes
\* the place of the open parenthesis below it, whose flags hold again.
RightParen(st, stack) ==
    IF Len(stack) < 2 \/ stack[Len(stack) - 1].t # "(" THEN BadParse
    ELSE [st EXCEPT !.stack = Append(SubSeq(stack, 1, Len(stack) - 2), stack[Len(stack)]),
                    !.fl = stack[Len(stack) - 1].fl, !.i = st.i + 1, !.last = FALSE]
parseRightParen(st) == RightParen(st, Closed(st.stack))

\* parser.repeat: the operator takes the node on top of the stack, the
\* expression going on at index j (after the ? of a non-greedy operator).
\* An operator right after an operator, with nothing on the stack or with a
\* marker on top is an error, and so are nested counts past the limit.
Repeated(st, n, j) ==
    IF n.t = "repeat" /\ (n.lo >= 2 \/ n.hi >= 2) /\ ~repeatIsValid(n, 1000) THEN BadParse
    ELSE [st EXCEPT !.stack[Len(st.stack)] = n, !.i = j, !.last = TRUE]
repeat(re, st, t, lo, hi, j) ==
    IF st.last \/ st.stack = <<>> \/ st.stack[Len(st.stack)].t \in {"(", "|"} THEN BadParse
    ELSE Repeated(st, Rep(t, st.stack[Len(st.stack)], lo, hi), IF At(re, j) = "?" THEN j + 1 ELSE j)

\* The operator {n,m} parsed as rp; a "{" that does not begin one is a
\* literal.
RepeatOp(re, st, rp) ==
    IF ~rp.ok THEN Push(st, Lit(Code("{"), st.fl), st.i + 1)
    ELSE IF rp.min < 0 \/ rp.min > 1000 \/ rp.max > 1000 \/ (rp.max >= 0 /\ rp.min > rp.max)
    THEN BadParse
    ELSE repeat(re, st, "repeat", rp.min, rp.max, rp.i)

\* A named group, the name running from index j to index e - 1.
GroupNamed(re, st, j, e) ==
    IF e > j /\ \A x \in j..(e - 1) : re[x] \in WordChars
    THEN Push(st, Flagged("(", st.fl), e + 1)
    ELSE BadParse

\* A group that begins with the flags f: (?flags:re opens a group, (?flags)
\* puts nothing on the stack.
GroupFlags(st, f) ==
    IF ~f.ok THEN BadParse
    ELSE IF f.colon THEN [Push(st, Flagged("(", st.fl), f.i) EXCEPT !.fl = f.fl]
    ELSE [st EXCEPT !.fl = f.fl, !.i = f.i, !.last = FALSE]

\* syntax.parsePerlFlags: what begins with (? at index i.
parsePerlFlags(re, st, i) ==
    IF Len(re) > i + 3 /\ re[i + 2] = "P" /\ re[i + 3] = "<"
    THEN GroupNamed(re, st, i + 4, IndexFrom(re, i, ">"))
    ELSE IF Len(re) > i + 2 /\ re[i + 2] = "<"
    THEN GroupNamed(re, st, i + 3, IndexFrom(re, i, ">"))
    ELSE GroupFlags(st, parseFlags(re, i + 2, st.fl, FALSE, FALSE))

\* The literals of \Q...\E from index j to index e - 1.
RECURSIVE Quoted(_, _, _, _)
Quoted(re, st, j, e) ==
    IF j >= e THEN st ELSE Quoted(re, Push(st, Lit(Code(re[j]), st.fl), j + 1), j + 1, e)

\* \Q at index i, e being the index of the first \E after it, 0 if none.
QuotedTo(re, st, i, e) ==
    IF e = 0 THEN [Quoted(re, st, i + 2, Len(re) + 1) EXCEPT !.i = Len(re) + 1, !.last = FALSE]
    ELSE [Quoted(re, st, i + 2, e) EXCEPT !.i = e + 2, !.last = FALSE]

\* The class of one item, or the literal of an escape.
ItemClass(st, it) == IF it.ok THEN Push(st, Class({it.it}, FALSE), it.i) ELSE BadParse
EscapedLit(st, e) == IF e.ok THEN Push(st, Lit(e.c, st.fl), e.i) ELSE BadParse

\* The escape at index i outside a bracket expression, c being the
\* character after the backslash.
parseBackslash(re, st, i, c) ==
    IF c = "A" THEN Push(st, Node("bol"), i + 2)
    ELSE IF c = "z" THEN Push(st, Node("eol"), i + 2)
    ELSE IF c = "b" THEN Push(st, Node("wb"), i + 2)
    ELSE IF c = "B" THEN Push(st, Node("nwb"), i + 2)
    ELSE IF c = "C" THEN BadParse
    ELSE IF c = "Q" THEN QuotedTo(re, st, i, IndexPair(re, i + 2, "\\", "E"))
    ELSE IF c \in {"p", "P"} THEN ItemClass(st, parseUnicodeClass(re, i, st.fl))
    ELSE IF c \in {"d", "s", "w"}
    THEN Push(st, Class({Item(PerlClass(c), "", st.fl.i, FALSE)}, FALSE), i + 2)
    ELSE IF c \in {"D", "S", "W"}
    THEN Push(st, Class({Item(PerlClass(c), "", st.fl.i, TRUE)}, FALSE), i + 2)
    ELSE EscapedLit(st, parseEscape(re, i))

\* One turn of the loop of syntax.parse, on the character c at index i.
Step(re, st, i, c) ==
    IF c = "(" THEN
        IF At(re, i + 1) = "?" THEN parsePerlFlags(re, st, i)
        ELSE Push(st, Flagged("(", st.fl), i + 1)
    ELSE IF c = "|" THEN parseVerticalBar(st)
    ELSE IF c = ")" THEN parseRightParen(st)
    ELSE IF c = "^" THEN Push(st, Flagged("bol", st.fl), i + 1)
    ELSE IF c = "$" THEN Push(st, Flagged("eol", st.fl), i + 1)
    ELSE IF c = "." THEN Push(st, Flagged("any", st.fl), i + 1)
    ELSE IF c = "[" THEN parseClass(re, st)
    ELSE IF c = "*" THEN repeat(re, st, "star", 0, -1, i + 1)
    ELSE IF c = "+" THEN repeat(re, st, "star", 1, -1, i + 1)
    ELSE IF c = "?" THEN repeat(re, st, "star", 0, 1, i + 1)
    ELSE IF c = "{" THEN RepeatOp(re, st, parseRepeat(re, i))
    ELSE IF c = "\\" THEN parseBackslash(re, st, i, At(re, i + 1))
    ELSE Push(st, Lit(Code(c), st.fl), i + 1)

\* syntax.parse: the loop runs to the end of the expression or to an error.
RECURSIVE parse(_, _)
parse(re, st) ==
    IF ~st.ok \/ st.i > Len(re) THEN st ELSE parse(re, Step(re, st, st.i, re[st.i]))

\* regexp.Compile: the tree of the expression, or an error.  At the end the
\* stack is closed as at a parenthesis; an open parenthesis left on it is an
\* error.
Compiled(st, stack) ==
    IF st.ok /\ Len(stack) = 1
    THEN [err |-> FALSE, ast |-> stack[1]]
    ELSE [err |-> TRUE, ast |-> Node("bad")]
CompiledOf(st) == Compiled(st, Closed(st.stack))
Compile(re) ==
    CompiledOf(parse(re, [ok |-> TRUE, i |-> 1, stack |-> <<>>, fl |-> NoFlags, last |-> FALSE]))

\* --------------------------------------------------- regexp: the matcher

\* The code point is in the item, in the class of the set node n.
InItem(it, code) ==
    LET in(d) == \/ \E r \in it.ranges : r[1] <= d /\ d <= r[2]
                 \/ it.table # "" /\ InTable(it.table, d) IN
    (IF it.fold THEN \E d \in Orbit(code) : in(d) ELSE in(code)) # it.neg
InClass(n, code) == (\E it \in n.items : InItem(it, code)) # n.neg

\* The character before offset p + 1 of the text is a word character.
IsWordAt(str, p) == At(str, p) \in WordChars

\* The offsets at which a match of node n can end when it begins at one of
\* the offsets S of the text (offset p is between character p and p + 1).
RECURSIVE Ends(_, _, _)
RECURSIVE EndsCat(_, _, _, _)
RECURSIVE EndsRep(_, _, _, _, _)
RECURSIVE EndsStar(_, _, _)

Ends(n, str, S) ==
    IF S = {} THEN {}
    ELSE CASE n.t = "set" ->
                {p + 1 : p \in {q \in S : q < Len(str) /\ InClass(n, Code(str[q + 1]))}}
           [] n.t = "any" ->
                {p + 1 : p \in {q \in S : q < Len(str) /\ (n.fl.s \/ str[q + 1] # "\n")}}
           [] n.t = "bol" -> {p \in S : p = 0 \/ (n.fl.m /\ str[p] = "\n")}
           [] n.t = "eol" -> {p \in S : p = Len(str) \/ (n.fl.m /\ str[p + 1] = "\n")}
           [] n.t = "wb" -> {p \in S : IsWordAt(str, p) # IsWordAt(str, p + 1)}
           [] n.t = "nwb" -> {p \in S : IsWordAt(str, p) = IsWordAt(str, p + 1)}
           [] n.t = "cat" -> EndsCat(n.kids, 1, str, S)
           [] n.t = "alt" -> UNION {Ends(n.kids[k], str, S) : k \in DOMAIN n.kids}
           [] n.t \in {"star", "repeat"} -> EndsRep(n.kids[1], n.lo, n.hi, str, S)

EndsCat(kids, k, str, S) ==
    IF k > Len(kids) THEN S ELSE EndsCat(kids, k + 1, str, Ends(kids[k], str, S))

EndsRep(n, lo, hi, str, S) ==
    IF S = {} THEN {}
    ELSE IF lo > 0 THEN EndsRep(n, lo - 1, IF hi < 0 THEN hi ELSE hi - 1, str, Ends(n, str, S))
    ELSE IF hi < 0 THEN EndsStar(n, str, S)
    ELSE IF hi = 0 THEN S
    ELSE S \cup EndsRep(n, 0, hi - 1, str, Ends(n, str, S))

EndsStar(n, str, S) ==
    LET T == S \cup Ends(n, str, S) IN IF T = S THEN S ELSE EndsStar(n, str, T)

\* Regexp.MatchString: the text contains a match of the compiled expression,
\* beginning at any offset.  A compiled expression is kept as its source
\* text (Regexp.String) and parsed where it is applied.
MatchString(re, str) == Ends(Compile(re).ast, str, 0..Len(str)) # {}

\* The expression matches the whole of the text, first character to last.
WholeMatch(re, str) == Len(str) \in Ends(Compile(re).ast, str, {0})

\* ------------------------------------------------------ net: IP and CIDR

\* The first index of a character of cs in the string; 0 if none.
RECURSIVE IndexAny(_, _, _)
IndexAny(s, cs, i) ==
    IF i > Len(s) THEN 0 ELSE IF s[i] \in cs THEN i ELSE IndexAny(s, cs, i + 1)

\* strings.Contains with a one-character argument.
HasChar(s, c) == IndexAny(s, {c}, 1) > 0

NoIP == [ok |-> FALSE, v4 |-> FALSE, b |-> <<>>]
Zeros(n) == [i \in 1..n |-> 0]

\* netip.parseIPv4Fields: four decimal fields of at most 255, no leading
\* zero, separated by dots.
RECURSIVE parseIPv4Fields(_, _, _, _, _, _)
parseIPv4Fields(s, i, val, pos, digLen, fields) ==
    IF i > Len(s) THEN
        IF pos < 3 THEN [ok |-> FALSE, fields |-> <<>>]
        ELSE [ok |-> TRUE, fields |-> Append(fields, val)]
    ELSE IF s[i] \in Digits THEN
        IF (digLen = 1 /\ val = 0) \/ val * 10 + DigitVal(s[i]) > 255
        THEN [ok |-> FALSE, fields |-> <<>>]
        ELSE parseIPv4Fields(s, i + 1, val * 10 + DigitVal(s[i]), pos, digLen + 1, fields)
    ELSE IF s[i] = "." THEN
        IF i = 1 \/ i = Len(s) \/ s[i - 1] = "." \/ pos = 3
        THEN [ok |-> FALSE, fields |-> <<>>]
        ELSE parseIPv4Fields(s, i + 1, 0, pos + 1, 0, Append(fields, val))
    ELSE [ok |-> FALSE, fields |-> <<>>]

\* netip.parseIPv4; the 16 bytes are those of Addr.As16, the address mapped
\* into IPv6.
V4Addr(f) ==
    IF f.ok THEN [ok |-> TRUE, v4 |-> TRUE, b |-> Zeros(10) \o <<255, 255>> \o f.fields]
    ELSE NoIP
parseIPv4(s) == V4Addr(parseIPv4Fields(s, 1, 0, 0, 0, <<>>))

\* The end of netip.parseIPv6: the whole string was used, and a "::" stands
\* for the bytes that are missing, at least two.
V6Finish(s, j, ip, ell) ==
    IF j <= Len(s) THEN NoIP
    ELSE IF Len(ip) < 16 THEN
        IF ell < 0 THEN NoIP
        ELSE [ok |-> TRUE, v4 |-> FALSE,
              b |-> SubSeq(ip, 1, ell) \o Zeros(16 - Len(ip)) \o SubSeq(ip, ell + 1, Len(ip))]
    ELSE IF ell >= 0 THEN NoIP
    ELSE [ok |-> TRUE, v4 |-> FALSE, b |-> ip]

\* The loop of netip.parseIPv6 from index j of the string: ip holds the bytes
\* parsed so far and ell the place of the "::" in them, -1 if none was seen.
RECURSIVE V6Loop(_, _, _, _)

\* An IPv4 address f in the last four bytes.
V6Tail(s, ip, ell, f) ==
    IF (ell < 0 /\ Len(ip) # 12) \/ Len(ip) + 4 > 16 \/ ~f.ok THEN NoIP
    ELSE V6Finish(s, Len(s) + 1, ip \o f.fields, ell)

\* After a group of hex digits that ended before index e, the bytes now
\* being ip: the end of the string, a colon or a "::".
V6Next(s, e, ip, ell) ==
    IF e > Len(s) THEN V6Finish(s, e, ip, ell)
    ELSE IF s[e] # ":" \/ e = Len(s) THEN NoIP
    ELSE IF s[e + 1] = ":" THEN
        IF ell >= 0 THEN NoIP
        ELSE IF e + 1 = Len(s) THEN V6Finish(s, e + 2, ip, Len(ip))
        ELSE V6Loop(s, e + 2, ip, Len(ip))
    ELSE V6Loop(s, e + 1, ip, ell)

\* A group of hex digits from index j to index e - 1, of value acc.
V6Group(s, j, e, acc, ip, ell) ==
    IF e - j > 4 \/ e = j THEN NoIP
    ELSE IF At(s, e) = "."
    THEN V6Tail(s, ip, ell, parseIPv4Fields(SubSeq(s, j, Len(s)), 1, 0, 0, 0, <<>>))
    ELSE V6Next(s, e, ip \o <<acc \div 256, acc % 256>>, ell)

V6Loop(s, j, ip, ell) ==
    IF Len(ip) >= 16 THEN V6Finish(s, j, ip, ell)
    ELSE V6Group(s, j, RunEnd(s, j, HexDigits),
                 Number(s, j, RunEnd(s, j, HexDigits), 16, 65536, 0), ip, ell)

\* netip.parseIPv6, for a string without a zone.
parseIPv6(s) ==
    IF Len(s) >= 2 /\ s[1] = ":" /\ s[2] = ":"
    THEN IF Len(s) = 2 THEN [ok |-> TRUE, v4 |-> FALSE, b |-> Zeros(16)]
         ELSE V6Loop(s, 3, <<>>, 0)
    ELSE V6Loop(s, 1, <<>>, -1)

\* netip.ParseAddr as net.ParseIP and net.ParseCIDR use it: an address with
\* a zone is refused by both.  i is the index of the first dot or colon.
AddrAt(s, i) ==
    IF i = 0 \/ HasChar(s, "%") THEN NoIP
    ELSE IF s[i] = "." THEN parseIPv4(s)
    ELSE parseIPv6(s)
ParseAddr(s) == AddrAt(s, IndexAny(s, {".", ":"}, 1))

\* net.ParseIP: the 16 bytes of the address; ok is FALSE for nil.
ParseIP(s) == ParseAddr(s)

\* IP.To4 of 16 bytes: the last four when the address is an IPv4 address
\* mapped into IPv6, <<>> (nil) otherwise.
To4(b) ==
    IF SubSeq(b, 1, 12) = Zeros(10) \o <<255, 255>> THEN SubSeq(b, 13, 16) ELSE <<>>

\* net.dtoi: the decimal number the string consists of, its digits running
\* to index e - 1.
NumberTo(s, e, n) == [ok |-> e > 1 /\ e = Len(s) + 1 /\ n >= 0 /\ n < 16777215, n |-> n]
dtoi(s) == NumberTo(s, RunEnd(s, 1, Digits), Number(s, 1, RunEnd(s, 1, Digits), 10, 16777215, 0))

\* The byte b under a mask byte whose first k bits are set.
MaskByte(b, k) ==
    IF k >= 8 THEN b ELSE IF k <= 0 THEN 0 ELSE (b \div (2 ^ (8 - k))) * (2 ^ (8 - k))

\* IP.Mask with net.CIDRMask(bits, 8 * Len(b)).
MaskIP(b, bits) == [i \in DOMAIN b |-> MaskByte(b[i], bits - 8 * (i - 1))]

\* net.ParseCIDR: the network number (4 bytes for an IPv4 prefix, 16 for an
\* IPv6 one) and the number of bits of its mask, from the address a before
\* the slash and the number n after it.
NoNet == [ok |-> FALSE, ip |-> <<>>, bits |-> 0]
NetOf(ip, n) ==
    IF n.n > 8 * Len(ip) THEN NoNet ELSE [ok |-> TRUE, ip |-> MaskIP(ip, n.n), bits |-> n.n]
CIDROf(a, n) ==
    IF ~a.ok \/ ~n.ok THEN NoNet
    ELSE IF a.v4 THEN NetOf(SubSeq(a.b, 13, 16), n)
    ELSE NetOf(a.b, n)
CIDRAt(s, i) ==
    IF i = 0 THEN NoNet
    ELSE CIDROf(ParseAddr(SubSeq(s, 1, i - 1)), dtoi(SubSeq(s, i + 1, Len(s))))
ParseCIDR(s) == CIDRAt(s, IndexAny(s, {"/"}, 1))

\* IPNet.Contains: the network number and the address are taken as IPv4
\* when they are IPv4 addresses mapped into IPv6 (the mask then being the
\* last four bytes of the mask), must be of one length, and agree under the
\* mask.
SameNet(nn, ip, bits) == Len(ip) = Len(nn) /\ MaskIP(ip, bits) = MaskIP(nn, bits)
IPNetContains(net, b) ==
    SameNet(IF Len(net.ip) = 16 /\ To4(net.ip) # <<>> THEN To4(net.ip) ELSE net.ip,
            IF To4(b) # <<>> THEN To4(b) ELSE b,
            IF Len(net.ip) = 16 /\ To4(net.ip) # <<>> THEN net.bits - 96 ELSE net.bits)

\* ------------------------------------------------------------ the filter

\* part_007:255-270: "^" is put in front unless the pattern starts with it,
\* "$" behind unless the pattern ends with it, and the result is compiled;
\* err is the error of regexp.Compile, re the compiled expression.
Anchored(p) == IF HasSuffix(p, "$") THEN p ELSE p \o <<"$">>
CompiledRegex(anchored) == [err |-> Compile(anchored).err, re |-> anchored]
compileAnchoredRegex(p) ==
    CompiledRegex(Anchored(IF HasPrefix(p, "^") THEN p ELSE <<"^">> \o p))

\* The result of compiling a list, rs being the results for its patterns in
\* order: the error of the first pattern that failed, or the list.
Compiled1(rs) ==
    [err |-> \E i \in DOMAIN rs : rs[i].err, list |-> [i \in DOMAIN rs |-> rs[i].re]]

\* part_007:241-252
compilePatterns(patterns) ==
    Compiled1([i \in DOMAIN patterns |-> compileAnchoredRegex(patterns[i])])

\* part_007:117-143: a host matcher is a regexMatcher or a cidrMatcher.
regexMatcher(r) == [err |-> r.err, re |-> [cidr |-> FALSE, src |-> r.re]]
cidrMatcher(p) == [err |-> FALSE, re |-> [cidr |-> TRUE, src |-> p]]

\* part_007:201-220: a pattern with a "/" that net.ParseCIDR accepts is a
\* CIDR matcher, every other pattern an anchored regex.
compileHostPattern(p) ==
    IF HasChar(p, "/") /\ ParseCIDR(p).ok
    THEN cidrMatcher(p)
    ELSE regexMatcher(compileAnchoredRegex(p))
compileHostPatterns(patterns) ==
    Compiled1([i \in DOMAIN patterns |-> compileHostPattern(patterns[i])])

\* part_007:137-143: the CIDR matcher with network net fires on the host
\* whose address is ip.
cidrMatch(net, ip) == ip.ok /\ IPNetContains(net, ip.b)

\* part_007:121-123 and 137-143: the matcher fires on the host.
match(m, host) ==
    IF m.cidr THEN cidrMatch(ParseCIDR(m.src), ParseIP(host)) ELSE MatchString(m.src, host)

\* part_007:158-177: the filter, or the error of the first list that does
\* not compile.
FilterOf(ha, hd, ca, cd) ==
    [err |-> ha.err \/ hd.err \/ ca.err \/ cd.err,
     hostAllow |-> ha.list, hostDeny |-> hd.list, cmdAllow |-> ca.list, cmdDeny |-> cd.list]
NewFilter(hostAllow, hostDeny, cmdAllow, cmdDeny) ==
    FilterOf(compileHostPatterns(hostAllow), compileHostPatterns(hostDeny),
             compilePatterns(cmdAllow), compilePatterns(cmdDeny))

\* The errors of AllowHost and AllowCommand: nil; "is denied by denylist
\* pattern", which names the pattern's String() and, for a host, the host
\* that was matched; "is not in the allowlist", which names the host.
NoError == [kind |-> "", input |-> <<>>, pattern |-> <<>>]
Denied(input, pattern) == [kind |-> "denied", input |-> input, pattern |-> pattern]
NotAllowed(input) == [kind |-> "notallowed", input |-> input, pattern |-> <<>>]

\* part_007:183-187 and 190-194: the range loop over a host list from its
\* entry i on: the place of the first matcher that fires, 0 when the loop
\* ends without one.
RECURSIVE hostRange(_, _, _)
hostRange(list, host, i) ==
    IF i > Len(list) THEN 0
    ELSE IF match(list[i], host) THEN i
    ELSE hostRange(list, host, i + 1)

\* part_007:226-230 and 233-237: the same loop over a command list.
RECURSIVE cmdRange(_, _, _)
cmdRange(list, cmd, i) ==
    IF i > Len(list) THEN 0
    ELSE IF MatchString(list[i], cmd) THEN i
    ELSE cmdRange(list, cmd, i + 1)

\* What the two loops return, d and a being the places they stopped at.
Checked(deny, allow, d, a, input) ==
    IF d # 0 THEN Denied(input, deny[d])
    ELSE IF Len(allow) > 0 /\ a = 0 THEN NotAllowed(input)
    ELSE NoError

\* part_007:183-198: the two loops of AllowHost on the host they are given:
\* the first deny matcher that fires returns the denylist error, which
\* names the host and the matcher's pattern; then, with a non-empty
\* allowlist, the first allow matcher that fires returns nil and the end of
\* the loop the allowlist error.
hostChecked(f, host) ==
    Checked([i \in DOMAIN f.hostDeny |-> f.hostDeny[i].src], f.hostAllow,
            hostRange(f.hostDeny, host, 1), hostRange(f.hostAllow, host, 1),
            host)

\* AllowHost without the strings.ToLower of part_007:181.
AllowHostAsGiven(f, host) == hostChecked(f, host)

\* part_007:180-199: the host is lower-cased, then checked.
AllowHost(f, host) == hostChecked(f, ToLower(host))

\* part_007:225-242: the same loops for a command, as it is given; the
\* errors do not name the command.
AllowCommand(f, cmd) ==
    Checked(f.cmdDeny, f.cmdAllow,
            cmdRange(f.cmdDeny, cmd, 1), cmdRange(f.cmdAllow, cmd, 1), <<>>)

\* A call of AllowHost / AllowCommand; verdict records the call, the error
\* it returned and whether that is nil.
CallAllowHost(host) ==
    /\ \E err \in {AllowHost(filter, host)} :
          verdict' = [fn |-> "AllowHost", input |-> host,
                      ok |-> err = NoError, err |-> err]
    /\ UNCHANGED <<conns, sess, clients, mu, pc, loc, ret, now, filter, rpm,
                   remote, sshConfig, fs, rl>>

CallAllowCommand(cmd) ==
    /\ \E err \in {AllowCommand(filter, cmd)} :
          verdict' = [fn |-> "AllowCommand", input |-> cmd,
                      ok |-> err = NoError, err |-> err]
    /\ UNCHANGED <<conns, sess, clients, mu, pc, loc, ret, now, filter, rpm,
                   remote, sshConfig, fs, rl>>

\* The filter's lists are empty or hold one of these patterns: a, A, é,
\* a|b, a.*, [^b]+, \pL+, and the prefixes a::/16 and ::/124, which a host
\* list takes as CIDR matchers and a command list as regular expressions;
\* or they hold a and a|b, in either order.
ListPatterns ==
    {<<"a">>, <<"A">>, <<"é">>, <<"a", "|", "b">>, <<"a", ".", "*">>,
     <<"[", "^", "b", "]", "+">>, <<"\\", "p", "L", "+">>,
     <<"a", ":", ":", "/", "1", "6">>, <<":", ":", "/", "1", "2", "4">>}
PatternLists ==
    StringsOver(ListPatterns, 0, MaxListLen)
        \cup {<<<<"a">>, <<"a", "|", "b">>>>, <<<<"a", "|", "b">>, <<"a">>>>}
\* The inputs: the strings over the input characters, and four hosts that
\* are IPv6 addresses.
AddrInputs == {<<":", ":">>, <<"a", ":", ":">>, <<"A", ":", ":">>, <<":", ":", "b">>}
Inputs == StringsOver(InputChars, 0, MaxInputLen) \cup AddrInputs

\* AllowHost reads only the host lists and AllowCommand only the command
\* lists, so one allowlist and one denylist are drawn and given to both.
\* The server does not start with a filter that does not compile
\* (part_001:54-62).
InitFilter ==
    \E allow \in PatternLists, deny \in PatternLists :
        /\ ~NewFilter(allow, deny, allow, deny).err
        /\ InitWith(NewFilter(allow, deny, allow, deny), RateLimit, DefaultConfig)

NextFilter ==
    \/ \E host \in Inputs : CallAllowHost(host)
    \/ \E cmd \in Inputs : CallAllowCommand(cmd)

SpecFilter == InitFilter /\ [][NextFilter]_vars

\* The matchers of a list of the filter that fire on the input: the places
\* of the host matchers whose match(host) is true, and of the command
\* expressions whose MatchString(cmd) is true.
HostFiring(list, host) == {i \in DOMAIN list : match(list[i], host)}
CmdFiring(list, cmd) == {i \in DOMAIN list : MatchString(list[i], cmd)}
SomeHostMatch(list, host) == HostFiring(list, host) # {}
SomeMatch(list, str) == CmdFiring(list, str) # {}

\* C14 as stated: AllowHost(h) and AllowCommand(c) reject iff a denylist
\* matcher matches the input, or the allowlist is non-empty and no allowlist
\* matcher matches the input.
C14_DenyPriority ==
    /\ verdict.fn = "AllowHost" =>
          (~verdict.ok <=>
              \/ HostFiring(filter.hostDeny, verdict.input) # {}
              \/ /\ Len(filter.hostAllow) > 0
                 /\ HostFiring(filter.hostAllow, verdict.input) = {})
    /\ verdict.fn = "AllowCommand" =>
          (~verdict.ok <=>
              \/ CmdFiring(filter.cmdDeny, verdict.input) # {}
              \/ /\ Len(filter.cmdAllow) > 0
                 /\ CmdFiring(filter.cmdAllow, verdict.input) = {})

\* C14, amended: AllowCommand(c) rejects iff a denylist matcher matches c,
\* or the allowlist is non-empty and no allowlist matcher matches c;
\* AllowHost(h) rejects iff the same holds of the lower-cased h.  A call
\* is rejected with an error and accepted with nil; when a deny matcher
\* fires the error is that of the denylist, whatever the allowlist holds,
\* and it names the first deny pattern that fires; otherwise it is that of
\* the allowlist.  So an input on which an allow and a deny matcher both
\* fire is rejected, and with both lists empty every input is accepted.
C14_DenyPriorityLowered ==
    /\ verdict.fn = "AllowHost" =>
          LET h == ToLower(verdict.input)
              deny == HostFiring(filter.hostDeny, h)
              allow == HostFiring(filter.hostAllow, h)
          IN
          /\ ~verdict.ok <=>
                (deny # {} \/ (Len(filter.hostAllow) > 0 /\ allow = {}))
          /\ verdict.ok <=> verdict.err.kind = ""
          /\ deny # {} =>
                /\ verdict.err.kind = "denied"
                /\ verdict.err.input = h
                /\ \E i \in deny :
                      /\ verdict.err.pattern = filter.hostDeny[i].src
                      /\ \A j \in deny : i <= j
          /\ (~verdict.ok /\ deny = {}) =>
                verdict.err.kind = "notallowed" /\ verdict.err.input = h
          /\ (deny # {} /\ allow # {}) => ~verdict.ok
          /\ (Len(filter.hostDeny) = 0 /\ Len(filter.hostAllow) = 0) => verdict.ok
    /\ verdict.fn = "AllowCommand" =>
          LET c == verdict.input
              deny == CmdFiring(filter.cmdDeny, c)
              allow == CmdFiring(filter.cmdAllow, c)
          IN
          /\ ~verdict.ok <=>
                (deny # {} \/ (Len(filter.cmdAllow) > 0 /\ allow = {}))
          /\ verdict.ok <=> verdict.err.kind = ""
          /\ deny # {} =>
                /\ verdict.err.kind = "denied"
                /\ \E i \in deny :
                      /\ verdict.err.pattern = filter.cmdDeny[i]
                      /\ \A j \in deny : i <= j
          /\ (~verdict.ok /\ deny = {}) => verdict.err.kind = "notallowed"
          /\ (deny # {} /\ allow # {}) => ~verdict.ok
          /\ (Len(filter.cmdDeny) = 0 /\ Len(filter.cmdAllow) = 0) => verdict.ok

\* AllowHost was called with a host that has an upper-case letter and that
\* a deny and an allow matcher both fire on once lower-cased, the deny
\* matcher that fires being the second of its list; the call was rejected
\* with the error of the denylist.
C14_BothFire ==
    /\ verdict.fn = "AllowHost"
    /\ verdict.input # ToLower(verdict.input)
    /\ HostFiring(filter.hostDeny, ToLower(verdict.input)) = {2}
    /\ HostFiring(filter.hostAllow, ToLower(verdict.input)) # {}
    /\ filter.hostDeny # filter.hostAllow
    /\ verdict.err.kind = "denied"

\* ---------------------------------------------------------- auto-anchoring

\* One pattern, any string over the pattern characters that compiles, as
\* the only entry of the denylists; the allowlists are empty.
AnchorPatterns ==
    {pat \in StringsOver(PatternChars, 1, MaxPatLen) : ~compileAnchoredRegex(pat).err}

InitAnchor == \E pat \in AnchorPatterns : InitWith(NewFilter(<<>>, <<pat>>, <<>>, <<pat>>), RateLimit,
                                     DefaultConfig)

SpecAnchor == InitAnchor /\ [][NextFilter]_vars

\* C15: a pattern given to the filter fires only if it matches the whole
\* input, never on an input of which it matches only a part: a call that
\* the one deny pattern rejects has an input that the pattern matches as a
\* whole.
C15_FiresOnlyOnWholeInput ==
    /\ verdict.fn = "AllowCommand" /\ ~verdict.ok
          => WholeMatch(filter.cmdDeny[1], verdict.input)
    /\ verdict.fn = "AllowHost" /\ ~verdict.ok
          => WholeMatch(filter.hostDeny[1].src, ToLower(verdict.input))

\* ------------------------------------------------------------ rate limits

\* The limits the limiter is made with.
RpmValues == {r \in 1..30 : r \in 1..2 \/ r % 5 = 0}

InitRate == \E r \in RpmValues : InitWith(NoFilter, r, DefaultConfig)

\* The goroutines call Allow for the hosts while the clock runs.
NextRate ==
    \/ \E p \in Callers :
         \/ \E host \in Hosts : AllowCall(p, host)
         \/ GetLimiterFound(p) \/ GetLimiterMake(p) \/ LimiterAllow(p)
    \/ Tick

SpecRate == InitRate /\ [][NextRate]_vars

\* C20: a host's bucket holds max(rpm/10, 1) tokens when made and at most
\* that ever; a call of Allow succeeds exactly if the bucket it draws from
\* holds a whole token once rpm/60 tokens are added (up to the capacity)
\* for each second since the bucket was last drawn from, and then takes
\* one token; a call made with no time elapsed since the bucket was made
\* succeeds exactly if it is one of the first max(rpm/10, 1) calls on the
\* bucket; and a call changes no bucket but the one of its host.
C20_TokenBucket ==
    [][LET cap == Max(rpm \div 10, 1) * TokenUnit IN
       /\ \A i \in DOMAIN rl'.made :
             /\ rl'.made[i].tokens \in 0..cap
             /\ (rl.made[i] = NoBucket /\ rl'.made[i] # NoBucket)
                   => rl'.made[i].tokens = cap
       /\ \A p \in Callers :
             (rl.call[p].at = "l_allow" /\ rl'.call[p].at = "idle")
                => LET i == rl.call[p].limiter
                       b == rl.made[i]
                       filled == b.tokens + (now - b.last) * rpm
                       avail == IF filled > cap THEN cap ELSE filled
                       ok == rl'.call[p].ok
                   IN /\ rl.made[i].host = rl.call[p].host
                      /\ ok <=> avail >= TokenUnit
                      /\ ok => rl'.made[i].tokens = avail - TokenUnit
                      /\ b.born = now => (ok <=> b.calls < Max(rpm \div 10, 1))
                      /\ \A j \in DOMAIN rl.made \ {i} : rl'.made[j] = rl.made[j]
      ]_vars

\* With a burst of two or more, the call after the burst was refused with
\* no time elapsed, while the other host's bucket, made at the same time,
\* has lost the one token that was asked of it.
C20_BurstSpent ==
    \E p \in Callers, i, j \in DOMAIN rl.made :
        /\ rl.call[p] = [at |-> "idle", host |-> rl.made[i].host,
                         limiter |-> i, ok |-> FALSE]
        /\ rpm \div 10 >= 2
        /\ rl.made[i].born = now /\ rl.made[i].calls = rpm \div 10 + 1
        /\ rl.made[i].tokens = 0
        /\ rl.made[j].host # rl.made[i].host
        /\ rl.made[j].born = now /\ rl.made[j].calls = 1
        /\ rl.made[j].tokens = (rpm \div 10) * TokenUnit - TokenUnit

\* ============================================================= ssh_connect

\* A host name as the string the filter is given.
HostChars(h) == IF h = "h1" THEN <<"h", "1">> ELSE <<"h", "2">>

\* connect.go:67-68: ssh_connect calls RateLimiter.Allow(params.Host), which
\* enters getLimiter.
HandleConnect(p, params) ==
    /\ pc[p] = "idle"
    /\ AllowReturned(p)
    /\ rl' = AllowEnter(p, params.Host)
    /\ UpdatePool([pc EXCEPT ![p] = "h_allow"],
                  [loc EXCEPT ![p] = [BlankLocals EXCEPT !.params = params]],
                  NoRet, conns, sess, clients, mu, now)
    /\ UNCHANGED <<filter, verdict, rpm, remote, sshConfig, fs>>

\* connect.go:68-75 with the host filter's answer given: Allow has returned;
\* its refusal is returned, else the host filter is asked and its refusal
\* is returned; only a call that passed both goes on to Pool.Connect.
HandleConnectWith(p, hostOK) ==
    LET params == loc[p].params
        rateOK == rl.call[p].ok
    IN
    /\ pc[p] = "h_allow"
    /\ AllowReturned(p)
    /\ rl' = [rl EXCEPT !.call[p] = NoCall]
    /\ verdict' = IF rateOK
                  THEN [fn |-> "AllowHost", input |-> HostChars(params.Host),
                        ok |-> hostOK]
                  ELSE verdict
    /\ IF rateOK /\ hostOK
       THEN UpdatePool([pc EXCEPT ![p] = "h_connect"], loc,
                       NoRet, conns, sess, clients, mu, now)
       ELSE UpdatePool([pc EXCEPT ![p] = "idle"],
                       [loc EXCEPT ![p] = BlankLocals],
                       Ret(p, "ssh_connect", NoID, NoSess,
                           IF rateOK THEN "hostdenied" ELSE "ratelimit",
                           NoSess),
                       conns, sess, clients, mu, now)
    /\ UNCHANGED <<filter, rpm, remote, sshConfig, fs>>

\* HandleConnectAdmit without the check of connect.go:72-75.
HandleConnectNoFilter(p) == HandleConnectWith(p, TRUE)

\* connect.go:68-75
HandleConnectAdmit(p) ==
    HandleConnectWith(p, AllowHost(filter, HostChars(loc[p].params.Host)) = NoError)

\* connect.go:78: deps.Pool.Connect(ctx, params)
ConnectCall(p) ==
    /\ pc[p] = "h_connect"
    /\ ConnectLookup(p, loc[p].params)

\* The filters of the admission checks: none, one that denies h2, one that
\* allows only h1, and one with both lists.
AdmitFilters ==
    {NoFilter,
     NewFilter(<<>>, <<HostChars("h2")>>, <<>>, <<>>),
     NewFilter(<<HostChars("h1")>>, <<>>, <<>>, <<>>),
     NewFilter(<<HostChars("h1"), HostChars("h2")>>, <<HostChars("h1")>>, <<>>, <<>>)}

\* A rate limit that gives each host a burst of two.
AdmitRate == 20

InitAdmit == \E f \in AdmitFilters : InitWith(f, AdmitRate, DefaultConfig)

\* The callers' ssh_connect calls, concurrently, with link loss.
NextAdmit ==
    \/ \E p \in Callers :
         \/ \E params \in ParamSet : HandleConnect(p, params)
         \/ GetLimiterFound(p) \/ GetLimiterMake(p) \/ LimiterAllow(p)
         \/ HandleConnectAdmit(p)
         \/ ConnectCall(p)
         \/ ConnectSteps(p)
    \/ \E c \in ClientIdx : LinkDown(c)

SpecAdmit == InitAdmit /\ [][NextAdmit]_vars

\* The host filter rejects h: a deny matcher fires on it, or the allowlist
\* is non-empty and none of its matchers fires.
HostRejected(h) ==
    \/ SomeHostMatch(filter.hostDeny, HostChars(h))
    \/ Len(filter.hostAllow) > 0 /\ ~SomeHostMatch(filter.hostAllow, HostChars(h))

\* C13: for a host that the host filter rejects, no ssh_connect call gets
\* to Pool.Connect: no goroutine is past the checks of ssh_connect for it,
\* the pool holds no entry (reservation or session) for it and no client
\* was dialed to it.
C13_RejectedHostNeverReachesPool ==
    \A h \in Hosts :
        HostRejected(h) =>
            /\ \A p \in Procs :
                  pc[p] \notin {"idle", "h_allow"} => loc[p].params.Host # h
            /\ \A id \in SessionIDs : conns[id] # NoSess => id[2] # h
            /\ \A o \in SessIdx : sess[o].ID \in SessionIDs => sess[o].Host # h
            /\ \A c \in ClientIdx, port \in Ports :
                  clients[c].st # "unused" => clients[c].addr # MakeAddr(h, port)

\* ssh_connect has refused a host the filter rejects while a session to
\* another host is in the pool.
C13_HostDenied ==
    /\ ret.op = "ssh_connect" /\ ret.err = "hostdenied"
    /\ \E h \in Hosts : HostRejected(h)
    /\ \E id \in SessionIDs : conns[id] # NoSess /\ sess[conns[id]].ready

\* ============================================================= ssh_execute

\* strings.ReplaceAll(s, "'", "'\\''")
RECURSIVE EscapeQuotes(_)
EscapeQuotes(str) ==
    IF str = <<>> THEN <<>>
    ELSE (IF Head(str) = "'" THEN <<"'", "\\", "'", "'">> ELSE <<Head(str)>>)
             \o EscapeQuotes(Tail(str))

\* execute.go:132-134
shellQuote(str) == <<"'">> \o EscapeQuotes(str) \o <<"'">>

\* ShapedCommand without the shaping of execute.go:52-63.
ShapedCommandRaw(input) == input.Command

\* execute.go:43-63: the command sent to the remote host: the raw command,
\* behind "cd <dir> && " when a working directory is given, and all of it
\* inside "sudo -S sh -c <quoted>" when sudo is asked for.
ShapedCommand(input) ==
    LET cd == IF input.WorkingDir # <<>>
              THEN <<"c", "d", " ">> \o shellQuote(input.WorkingDir)
                       \o <<" ", "&", "&", " ">> \o input.Command
              ELSE input.Command
    IN  IF input.Sudo
        THEN <<"s", "u", "d", "o", " ", "-", "S", " ", "s", "h", " ", "-", "c", " ">>
                 \o shellQuote(cd)
        ELSE cd

\* The timeout is always the configured one.
TimeoutDefaultOnly(input) == sshConfig.CommandTimeout

\* execute.go:66-69
TimeoutOf(input) ==
    IF input.Timeout > 0 THEN input.Timeout ELSE sshConfig.CommandTimeout

\* execute.go:37-38: ssh_execute holds the session GetConnection returned
\* and calls RateLimiter.Allow(conn.Host), which enters getLimiter.
ExecAllow(p, input) ==
    /\ pc[p] = "x_hold"
    /\ loc[p].input = NoInput
    /\ AllowReturned(p)
    /\ rl' = AllowEnter(p, sess[loc[p].conn].Host)
    /\ UpdatePool([pc EXCEPT ![p] = "e_allow"],
                  [loc EXCEPT ![p].input = input],
                  NoRet, conns, sess, clients, mu, now)
    /\ UNCHANGED <<filter, verdict, rpm, remote, sshConfig, fs>>

\* The handler's next state: the call goes on to open a channel, or returns
\* the error.
ExecAdmitted(p, err) ==
    LET input == loc[p].input IN
    /\ rl' = [rl EXCEPT !.call[p] = NoCall]
    /\ IF err = ""
       THEN UpdatePool([pc EXCEPT ![p] = "e_open"],
                       [loc EXCEPT ![p] =
                           [loc[p] EXCEPT !.cmd = ShapedCommand(input),
                                          !.timeout = TimeoutOf(input),
                                          !.deadline = now + TimeoutOf(input)]],
                       NoRet, conns, sess, clients, mu, now)
       ELSE UpdatePool([pc EXCEPT ![p] = "idle"],
                       [loc EXCEPT ![p] = BlankLocals],
                       [Ret(p, "ssh_execute", loc[p].id, NoSess, err, NoSess)
                           EXCEPT !.input = input],
                       conns, sess, clients, mu, now)
    /\ UNCHANGED <<filter, rpm, remote, sshConfig, fs>>

\* execute.go:38-70 with the string given to the command filter and the
\* sudo permission as parameters: Allow has returned; its refusal is
\* returned, else the command filter is asked, the command is shaped, the
\* sudo permission is checked and the deadline is set.
ExecAdmitWith(p, filtered, allowSudo) ==
    LET rateOK == rl.call[p].ok
        cmdOK == AllowCommand(filter, filtered) = NoError
    IN
    /\ pc[p] = "e_allow"
    /\ AllowReturned(p)
    /\ verdict' = IF rateOK
                  THEN [fn |-> "AllowCommand", input |-> filtered, ok |-> cmdOK]
                  ELSE verdict
    /\ ExecAdmitted(p, IF ~rateOK THEN "ratelimit"
                       ELSE IF ~cmdOK THEN "cmddenied"
                       ELSE IF loc[p].input.Sudo /\ ~allowSudo THEN "sudodisabled"
                       ELSE "")

\* ExecAdmit with the filter given the shaped command.
ExecAdmitFilterShaped(p) ==
    ExecAdmitWith(p, ShapedCommand(loc[p].input), sshConfig.AllowSudo)

\* ExecAdmit without the check of execute.go:58-60.
ExecAdmitSudoAnyway(p) == ExecAdmitWith(p, loc[p].input.Command, TRUE)

\* ExecAdmit with the command filter's answer looked at before the rate
\* limiter's.
ExecAdmitFilterFirst(p) ==
    LET rateOK == rl.call[p].ok
        cmdOK == AllowCommand(filter, loc[p].input.Command) = NoError
    IN
    /\ pc[p] = "e_allow"
    /\ AllowReturned(p)
    /\ verdict' = [fn |-> "AllowCommand", input |-> loc[p].input.Command,
                   ok |-> cmdOK]
    /\ ExecAdmitted(p, IF ~cmdOK THEN "cmddenied"
                       ELSE IF ~rateOK THEN "ratelimit"
                       ELSE IF loc[p].input.Sudo /\ ~sshConfig.AllowSudo
                            THEN "sudodisabled"
                       ELSE "")

\* execute.go:38-70: the filter is given the raw command.
ExecAdmit(p) ==
    ExecAdmitWith(p, loc[p].input.Command, sshConfig.AllowSudo)

\* Where a call of ssh_execute is between its admission (execute.go:70) and
\* its return: before the count, before NewSession, in NewSession, at the
\* select with the command not sent yet, and at the select with it sent.
ExecSteps == {"e_open", "e_new", "e_chan", "e_run", "e_wait"}

\* The value that p's call of ssh_execute returns with the error err.
ExecRet(p, err) ==
    [Ret(p, "ssh_execute", loc[p].id, NoSess, err, NoSess)
        EXCEPT !.input = loc[p].input]

\* execute.go:74: conn.IncrementCommandCount(), one section of conn.mu.
ExecCount(p) ==
    LET o == loc[p].conn IN
    /\ pc[p] = "e_open"
    /\ sess[o].CommandCount < MaxCommands
    /\ Goto(p, "e_new", loc[p], conns,
            [sess EXCEPT ![o].CommandCount = @ + 1], clients)

\* execute.go:75: conn.Client is read (outside conn.mu) and NewSession
\* sends the request to open a channel on it.
ExecNewSession(p) ==
    /\ pc[p] = "e_new"
    /\ Goto(p, "e_chan", [loc[p] EXCEPT !.client = sess[loc[p].conn].Client],
            conns, sess, clients)

\* execute.go:75-79: NewSession returns: the channel is open, or the client
\* the request was made on is closed or has lost its link and the call
\* returns 'create session'.
ExecSession(p) ==
    /\ pc[p] = "e_chan"
    /\ IF isAlive(loc[p].client)
       THEN /\ UpdatePool([pc EXCEPT ![p] = "e_run"], loc, NoRet,
                          conns, sess, clients, mu, now)
            /\ remote' = [remote EXCEPT !.channels = @ + 1]
       ELSE /\ UpdatePool([pc EXCEPT ![p] = "idle"],
                          [loc EXCEPT ![p] = BlankLocals],
                          ExecRet(p, "createsession"),
                          conns, sess, clients, mu, now)
            /\ remote' = remote
    /\ UNCHANGED <<filter, verdict, rpm, sshConfig, fs, rl>>

\* execute.go:94-95: session.Run sends the command on the channel: the
\* remote host starts it, or the channel's client is closed or has lost its
\* link and Run returns an error that carries no exit status.
RunStart(p) ==
    /\ pc[p] = "e_run"
    /\ IF isAlive(loc[p].client)
       THEN /\ UpdatePool([pc EXCEPT ![p] = "e_wait"], loc, NoRet,
                          conns, sess, clients, mu, now)
            /\ remote' = [remote EXCEPT !.ran = @ \cup {loc[p].cmd}]
       ELSE /\ UpdatePool([pc EXCEPT ![p] = "e_wait"],
                          [loc EXCEPT ![p].done = "lost"], NoRet,
                          conns, sess, clients, mu, now)
            /\ remote' = remote
    /\ UNCHANGED <<filter, verdict, rpm, sshConfig, fs, rl>>

\* execute.go:94-96: session.Run returns: the command has ended with an
\* exit status, or the client the channel was opened on is closed or has
\* lost its link.
RunDone(p) ==
    /\ pc[p] = "e_wait"
    /\ loc[p].done = ""
    /\ \E outcome \in IF isAlive(loc[p].client)
                      THEN {"exit0", "exit1"} ELSE {"lost"} :
          Goto(p, "e_wait", [loc[p] EXCEPT !.done = outcome], conns, sess, clients)

\* execute.go:103-129: the done case of the select: the output and the exit
\* code, or the error of a Run that gave no exit status.
ExecResult(p) ==
    /\ pc[p] = "e_wait"
    /\ loc[p].done # ""
    /\ Return(p, [ExecRet(p, IF loc[p].done = "lost" THEN "execute" ELSE "")
                     EXCEPT !.out = IF loc[p].done = "lost" THEN NoOutput
                                    ELSE [ExitCode |-> IF loc[p].done = "exit0" THEN 0 ELSE 1,
                                          Stdout |-> loc[p].cmd]],
              conns, sess, clients)

\* The caller cancels the request: the context given to HandleExecute, the
\* parent of the one made at execute.go:70, is done.
ExecCancel(p) ==
    /\ pc[p] \in ExecSteps
    /\ ~loc[p].cancelled
    /\ Goto(p, pc[p], [loc[p] EXCEPT !.cancelled = TRUE], conns, sess, clients)

\* <-ctx.Done() of execute.go:100 is ready: the deadline of execute.go:70
\* has passed or the caller's context is done.
CtxDone(p) == now >= loc[p].deadline \/ loc[p].cancelled

\* execute.go:100-102: the ctx.Done case of the select, which the handler
\* reaches once the channel is open: SIGKILL is sent on the channel, which
\* the host receives when the channel's client is alive, and the call
\* returns the timeout error.  When session.Run has not sent the command
\* yet, it sends it before the deferred session.Close() of execute.go:79
\* or finds the channel closed (late).
ExecTimeout(p) ==
    /\ pc[p] \in {"e_run", "e_wait"}
    /\ CtxDone(p)
    /\ \E late \in IF pc[p] = "e_run" /\ isAlive(loc[p].client)
                   THEN BOOLEAN ELSE {FALSE} :
          remote' = [remote EXCEPT
                        !.killed = IF isAlive(loc[p].client)
                                   THEN @ \cup {loc[p].cmd} ELSE @,
                        !.ran = IF late THEN @ \cup {loc[p].cmd} ELSE @]
    /\ UpdatePool([pc EXCEPT ![p] = "idle"], [loc EXCEPT ![p] = BlankLocals],
                  ExecRet(p, "timeout"), conns, sess, clients, mu, now)
    /\ UNCHANGED <<filter, verdict, rpm, sshConfig, fs, rl>>

\* The calls' inputs, and the configurations: no filter with sudo off or
\* on, a command allowlist or a command denylist with sudo on.
ExecInputs ==
    [Command : {<<"a">>, <<"b">>}, WorkingDir : {<<>>, <<"d", "'">>},
     Sudo : BOOLEAN, Timeout : 0..1]

ExecFilters ==
    {NoFilter,
     NewFilter(<<>>, <<>>, <<<<"a">>>>, <<>>),
     NewFilter(<<>>, <<>>, <<>>, <<<<"b">>>>)}

InitExec ==
    \E f \in ExecFilters, sudo \in BOOLEAN :
        /\ f = NoFilter \/ sudo
        /\ InitWith(f, AdmitRate, [DefaultConfig EXCEPT !.AllowSudo = sudo])

\* One goroutine that connects to one identity and calls ssh_execute on it
\* while the clock and the rate limiter's Cleanup run; the caller may
\* cancel the request and the link may be lost.
NextExec ==
    \/ \E params \in ParamsOf(TheID) \cap ValidParams : ConnectStart("c1", params)
    \/ ConnectWait1("c1") \/ ConnectProbe1("c1") \/ ConnectBump1("c1")
    \/ ConnectAuth("c1") \/ ConnectLock("c1")
    \/ ConnectDial("c1") \/ ConnectReady("c1")
    \/ GetStart("c1", TheID) \/ GetWait("c1") \/ GetProbe("c1") \/ GetBump("c1")
    \/ \E input \in ExecInputs : ExecAllow("c1", input)
    \/ GetLimiterFound("c1") \/ GetLimiterMake("c1") \/ LimiterAllow("c1")
    \/ ExecAdmit("c1")
    \/ ExecCount("c1") \/ ExecNewSession("c1") \/ ExecSession("c1")
    \/ RunStart("c1") \/ RunDone("c1") \/ ExecResult("c1")
    \/ ExecCancel("c1") \/ ExecTimeout("c1")
    \/ \E c \in ClientIdx : LinkDown(c)
    \/ \E maxAge \in 0..MaxTime, late \in SUBSET Hosts : Cleanup(maxAge, late)
    \/ Tick

SpecExec == InitExec /\ [][NextExec]_vars

\* The command filter rejects the string: a deny pattern fires on it, or
\* the allowlist is non-empty and none of its patterns fires.
CommandRejected(str) ==
    \/ SomeMatch(filter.cmdDeny, str)
    \/ Len(filter.cmdAllow) > 0 /\ ~SomeMatch(filter.cmdAllow, str)

\* The input of the ssh_execute call of p that a step admits or refuses.
CallInput(p) == IF pc'[p] = "e_open" THEN loc'[p].input ELSE ret'.input

\* C16: a call of ssh_execute that the rate limiter lets through gives the
\* command filter the caller's raw command, and is denied by the filter
\* exactly if the filter rejects the raw command, whatever working_dir and
\* sudo are.
C16_FilterOnRawCommand ==
    [][\A p \in Callers :
          (pc[p] = "e_allow" /\ pc'[p] # "e_allow"
              /\ ~(pc'[p] = "idle" /\ ret'.err = "ratelimit"))
          => /\ verdict'.fn = "AllowCommand"
             /\ verdict'.input = CallInput(p).Command
             /\ verdict'.ok <=> ~CommandRejected(CallInput(p).Command)
             /\ (pc'[p] = "idle" /\ ret'.err = "cmddenied")
                   <=> CommandRejected(CallInput(p).Command)
      ]_vars

\* A call with a working directory and sudo was denied by the filter
\* although the filter does not reject its shaped command.
C16_DeniedWhateverTheShape ==
    /\ ret.op = "ssh_execute" /\ ret.err = "cmddenied"
    /\ ret.input.Sudo /\ ret.input.WorkingDir # <<>>
    /\ ~CommandRejected(ShapedCommand(ret.input))

\* C17 as stated: the string that the command filter matched is the shaped
\* string that is sent to the remote host.
C17_FilterOnShapedCommand ==
    \A p \in Callers :
        pc[p] \in ExecSteps =>
            verdict.fn = "AllowCommand" /\ verdict.input = loc[p].cmd

\* C17, amended: the command filter is given the raw command, before the cd
\* prefix and the sudo wrapper are added; the shaped string that is sent to
\* the remote host differs from it when a working directory or sudo is
\* given, and is not matched against the patterns.
C17_ShapedCommandNotFiltered ==
    \A p \in Callers :
        pc[p] \in ExecSteps =>
            /\ verdict.fn = "AllowCommand" /\ verdict.ok
            /\ verdict.input = loc[p].input.Command
            /\ ~CommandRejected(loc[p].input.Command)
            /\ (loc[p].input.WorkingDir # <<>> \/ loc[p].input.Sudo)
                  => /\ loc[p].cmd # loc[p].input.Command
                     /\ Len(loc[p].cmd) > Len(loc[p].input.Command)
            /\ (pc[p] = "e_wait" /\ loc[p].done # "lost")
                  => loc[p].cmd \in remote.ran

\* A shaped command that the filter's allowlist does not match is running
\* on the remote host.
C17_UnmatchedShapeRuns ==
    \E p \in Callers :
        /\ pc[p] = "e_wait"
        /\ loc[p].cmd \in remote.ran
        /\ Len(filter.cmdAllow) > 0
        /\ CommandRejected(loc[p].cmd)

\* C18: a call of ssh_execute that asks for sudo while the configuration
\* does not permit it returns an error in the step that checks it, the
\* sudo-disabled error unless the rate limiter or the command filter refused
\* the call first; that step opens no channel, runs nothing and leaves the
\* session's command count as it was, and no sudo command ever runs.
C18_SudoDisabled ==
    [][/\ \A p \in Callers :
             (pc[p] = "e_allow" /\ pc'[p] # "e_allow"
                 /\ CallInput(p).Sudo /\ ~sshConfig.AllowSudo)
             => /\ pc'[p] = "idle"
                /\ ret'.op = "ssh_execute"
                /\ ret'.err \in {"ratelimit", "cmddenied", "sudodisabled"}
                /\ ret'.err = "ratelimit" => verdict' = verdict
                /\ ret'.err = "cmddenied" => ~verdict'.ok
                /\ ret'.err = "sudodisabled"
                      => verdict'.ok /\ verdict'.input = ret'.input.Command
                /\ remote' = remote
                /\ sess'[loc[p].conn].CommandCount = sess[loc[p].conn].CommandCount
       /\ ~sshConfig.AllowSudo => \A c \in remote'.ran : c[1] # "s"
      ]_vars

\* The sudo-disabled error was returned to a call with a working directory,
\* after a command without sudo had run on the session.
C18_SudoRefused ==
    /\ ret.op = "ssh_execute" /\ ret.err = "sudodisabled"
    /\ ret.input.Sudo /\ ret.input.WorkingDir # <<>>
    /\ remote.channels > 0

\* C19: the deadline of a call is its timeout seconds after the call was
\* admitted when timeout > 0 and the configured default after it otherwise;
\* while the caller's context is live, a call whose command has not
\* completed leaves the select only once the deadline has passed, with a
\* timeout error and no result, and SIGKILL was sent on its channel; a call
\* that leaves it before the deadline returns what its command gave (output
\* and exit code) or the error of a lost connection, and no signal is sent.
C19_Deadline ==
    [][\A p \in Callers :
          /\ (pc[p] = "e_allow" /\ pc'[p] = "e_open")
                => /\ loc'[p].input.Timeout > 0
                        => loc'[p].deadline = now + loc'[p].input.Timeout
                   /\ loc'[p].input.Timeout <= 0
                        => loc'[p].deadline = now + sshConfig.CommandTimeout
          /\ (pc[p] \in {"e_run", "e_wait"} /\ pc'[p] = "idle")
                => /\ loc[p].done = ""
                        => /\ now >= loc[p].deadline \/ loc[p].cancelled
                           /\ ret'.err = "timeout"
                   /\ ret'.err = "timeout"
                        => /\ now >= loc[p].deadline \/ loc[p].cancelled
                           /\ ret'.out = NoOutput
                           /\ isAlive(loc[p].client)
                                 => loc[p].cmd \in remote'.killed
                   /\ (now < loc[p].deadline /\ ~loc[p].cancelled)
                        => /\ loc[p].done # ""
                           /\ ret'.err \in {"", "execute"}
                           /\ remote' = remote
                   /\ ret'.err = ""
                        => /\ loc[p].done \in {"exit0", "exit1"}
                           /\ loc[p].cmd \in remote.ran
                           /\ ret'.out.ExitCode = (IF loc[p].done = "exit0" THEN 0 ELSE 1)
                           /\ ret'.out.Stdout = loc[p].cmd
                           /\ remote' = remote
      ]_vars

\* A call with timeout = 1 has returned the timeout error one second after
\* it was admitted, before the configured default, and its command was sent
\* SIGKILL.
C19_TimedOut ==
    /\ ret.op = "ssh_execute" /\ ret.err = "timeout"
    /\ ret.input.Timeout = 1
    /\ now < sshConfig.CommandTimeout
    /\ ShapedCommand(ret.input) \in remote.ran \cap remote.killed

\* ------------------------------------------------- client configuration

\* The configurations of host key verification.
HostKeyConfigs ==
    {[DefaultConfig EXCEPT !.VerifyHostKey = v, !.KnownHosts = k] :
        v \in BOOLEAN, k \in {"ok", "missing", "unparsable"}}

InitAuth == \E conf \in HostKeyConfigs : InitWith(NoFilter, RateLimit, conf)

\* Connect calls under every configuration of host key verification.
NextAuth ==
    \/ \E p \in Callers : Connect(p)
    \/ \E c \in ClientIdx : LinkDown(c)

SpecAuth == InitAuth /\ [][NextAuth]_vars

\* The params carry no authentication method, or host key verification is
\* on and the known_hosts file is missing.
CannotBuild(params) ==
    \/ params.Password = ""
    \/ sshConfig.VerifyHostKey /\ sshConfig.KnownHosts = "missing"

\* C22: when the client configuration cannot be built (no authentication
\* method, or host key verification on and the known_hosts file missing),
\* Connect returns the "auth config" error: it has constructed no pending
\* session, placed no reservation in the pool and dialed no client.
C22_AuthErrorBeforeReservation ==
    [][\A p \in Callers :
        (pc[p] = "c_auth" /\ pc'[p] # "c_auth" /\ CannotBuild(loc[p].params))
           => /\ ret'.by = p /\ ret'.op = "Connect" /\ ret'.err = "auth"
              /\ ret'.pending = NoSess
              /\ pc'[p] = "idle"
              /\ conns' = conns
              /\ HeldUnchanged(Procs \ {p})
              /\ \A o \in SessIdx : sess[o].ID = NoID => sess'[o].ID = NoID
              /\ \A c \in ClientIdx :
                    clients[c].st = "unused" => clients'[c].st = "unused"
      ]_vars

\* Connect has returned the "auth config" error under host key verification
\* with the known_hosts file missing, for params that carry a password.
C22_AuthRefused ==
    /\ ret.op = "Connect" /\ ret.err = "auth"
    /\ sshConfig.VerifyHostKey /\ sshConfig.KnownHosts = "missing"
    /\ \A o \in SessIdx : sess[o].ID = NoID

\* ------------------------------------------------- the ready signal

\* C26: a Connect call that has constructed a pending session returns with
\* that session's ready signal closed, on every path: dial success, dial
\* failure, pool full, lost reservation race (adopting or giving up) and
\* context cancellation while waiting.
C26_ReadyClosedOnReturn ==
    (ret.op = "Connect" /\ ret.pending # NoSess) => sess[ret.pending].ready

\* C27: a session constructed by Connect whose ready signal is closed has
\* exactly one of: connectErr set, a client.
C27_ErrXorClient ==
    \A o \in SessIdx :
        (sess[o].ID \notin {NoID, Collected} /\ sess[o].ready)
           => (sess[o].connectErr <=> sess[o].Client = NoClient)

\* C28: a session in the pool whose ready signal is closed has no
\* connectErr; a reservation whose ready signal closes with connectErr set
\* has no client and is not in the pool at that moment.
C28_NoFailedSessionInPool ==
    [][/\ \A id \in SessionIDs :
            (conns'[id] # NoSess /\ sess'[conns'[id]].ready)
               => ~sess'[conns'[id]].connectErr
       /\ \A o \in SessIdx :
            (~sess[o].ready /\ sess'[o].ready /\ sess'[o].connectErr)
               => /\ sess'[o].Client = NoClient
                  /\ \A id \in SessionIDs : conns'[id] # o
      ]_vars

\* A dial has failed while another Connect waits on the reservation's ready
\* signal: the signal is closed, connectErr is set and the pool no longer
\* holds the session the waiter is about to examine.
C28_FailedWhileAwaited ==
    /\ ret.op = "Connect" /\ ret.err = "dial"
    /\ sess[ret.pending].ready /\ sess[ret.pending].connectErr
    /\ conns[ret.id] # ret.pending
    /\ \E q \in Callers :
          pc[q] \in {"c_wait1", "c_wait2"} /\ loc[q].existing = ret.pending

\* ------------------------------------------------- session lifecycle

\* Every operation of the pool on one identity: two callers connecting,
\* resolving and disconnecting while links are lost, dials fail and CloseAll
\* runs.
NextLifecycle ==
    \/ \E p \in Callers :
         \/ \E params \in ParamsOf(TheID) : ConnectStart(p, params)
         \/ ConnectSteps(p)
         \/ GetStart(p, TheID) \/ GetSteps(p) \/ Release(p)
         \/ DisconnectStart(p, TheID) \/ DisconnectWait(p)
    \/ \E c \in ClientIdx : LinkDown(c)
    \/ CloseAll(Closer)

SpecLifecycle == Init /\ [][NextLifecycle]_vars

\* C29: in every reachable state a session constructed by the pool whose
\* Connected flag is true has a client.
C29_ConnectedHasClient ==
    \A o \in SessIdx : sess[o].Connected => sess[o].Client # NoClient

\* GetConnection has returned a session it reconnected: the flag is true
\* again, the session holds the new client and the old one is closed.
C29_ReconnectedSession ==
    /\ ret.op = "GetConnection" /\ ret.err = ""
    /\ sess[ret.conn].Connected
    /\ sess[ret.conn].Client # NoClient
    /\ clients[sess[ret.conn].Client].st = "up"
    /\ \E c \in ClientIdx : clients[c].st \in {"closed", "reclaimed"}

\* ------------------------------------------------- locking discipline

\* The network call of the step that leaves a label, and the locks the
\* goroutine holds around that call in the source ("pool" is p.mu,
\* "session" is the Connection's mu, read or write).
NetworkCall(label) ==
    CASE label \in {"c_probe1", "c_probe2", "g_probe"}
            -> [call |-> "keepalive", locks |-> {"session"}]
      [] label = "c_close_dead" -> [call |-> "close", locks |-> {}]
      [] label = "c_relock" -> [call |-> "close", locks |-> {"pool"}]
      [] label \in {"c_dial", "g_dial"} -> [call |-> "dial", locks |-> {}]
      [] label \in {"g_close", "d_wait", "k_wait"}
            -> [call |-> "close", locks |-> {"session"}]
      [] label = "a_wait" -> [call |-> "close", locks |-> {"pool", "session"}]
      [] OTHER -> [call |-> "", locks |-> {}]

\* The session whose client the step of p leaving its label talks to.
CallTarget(p) ==
    IF pc[p] \in {"c_probe1", "c_probe2", "c_close_dead", "c_relock"}
    THEN loc[p].existing
    ELSE loc[p].conn

\* The step of p makes the network call of its label: a dial always; a
\* keepalive when the session is marked connected and has a client; a close
\* when the session has a client (and, at pool.go:213, is still the map's
\* instance).
MakesCall(p) ==
    /\ pc'[p] # pc[p]
    /\ LET k == NetworkCall(pc[p]).call
           o == CallTarget(p) IN
       \/ k = "dial"
       \/ k = "keepalive" /\ sess[o].Connected /\ sess[o].Client # NoClient
       \/ /\ k = "close" /\ sess[o].Client # NoClient
          /\ pc[p] = "c_relock" => StillInstance(loc[p].id, o)

\* C30: no step makes a network call (SSH dial, keepalive probe, client
\* close) while its goroutine holds the pool lock or a session's lock.
C30_NoIOUnderLock ==
    [][\A p \in Procs : MakesCall(p) => NetworkCall(pc[p]).locks = {}]_vars

\* ------------------------------------------------------------------ paths

\* A path is a sequence of characters: chr0 is the byte 0, "\t" a control
\* character, "\\" the backslash.  The paths tried are those of less than
\* MaxPathLen characters, and those of MaxPathLen characters that are made
\* of names, "." and "/".
PathChars == {"/", ".", "a", "l", "chr0", "\t", "\\"}
NameChars == {"/", ".", "a", "l"}
MaxPathLen == 3
Paths ==
    UNION {[1..k -> PathChars] : k \in 0..(MaxPathLen - 1)}
        \cup [1..MaxPathLen -> NameChars]

\* pathcheck.go:135
MaxFilenameLength == 255

\* strings.Contains(p, sub)
Contains(p, sub) ==
    \E i \in 0..(Len(p) - Len(sub)) : SubSeq(p, i + 1, i + Len(sub)) = sub

\* strings.HasPrefix(p, prefix)
StartsWith(p, prefix) ==
    Len(p) >= Len(prefix) /\ SubSeq(p, 1, Len(prefix)) = prefix

\* The elements of a path: the maximal runs without "/" that are not empty.
RECURSIVE Elements(_)
Elements(p) ==
    IF p = <<>> THEN <<>>
    ELSE LET slashes == {i \in 1..Len(p) : p[i] = "/"}
             cut == IF slashes = {} THEN Len(p) + 1
                    ELSE CHOOSE i \in slashes : \A j \in slashes : i <= j
             head == SubSeq(p, 1, cut - 1)
             rest == Elements(SubSeq(p, cut + 1, Len(p)))
         IN IF head = <<>> THEN rest ELSE <<head>> \o rest

\* The elements joined by "/".
RECURSIVE JoinElements(_)
JoinElements(es) ==
    IF es = <<>> THEN <<>>
    ELSE IF Len(es) = 1 THEN es[1]
    ELSE es[1] \o <<"/">> \o JoinElements(Tail(es))

IsAbs(p) == p # <<>> /\ p[1] = "/"

\* The elements that path.Clean keeps: no "." element; a ".." element
\* removes the element before it, is dropped at the root and is kept at the
\* start of a relative path.
RECURSIVE CleanElements(_, _, _)
CleanElements(es, out, rooted) ==
    IF es = <<>> THEN out
    ELSE CleanElements(Tail(es),
             IF es[1] = <<".">> THEN out
             ELSE IF es[1] # <<".", ".">> THEN Append(out, es[1])
             ELSE IF out # <<>> /\ out[Len(out)] # <<".", ".">>
                  THEN SubSeq(out, 1, Len(out) - 1)
             ELSE IF rooted THEN out
             ELSE Append(out, es[1]),
             rooted)

\* path.Clean and filepath.Clean: one "/" between elements, no trailing "/";
\* "." for the empty result.
Cleaned(rooted, body) ==
    IF rooted THEN <<"/">> \o body
    ELSE IF body = <<>> THEN <<".">> ELSE body
Clean(p) ==
    Cleaned(IsAbs(p), JoinElements(CleanElements(Elements(p), <<>>, IsAbs(p))))

\* path.Join(a, b) and filepath.Join(a, b): empty arguments are ignored, the
\* result is cleaned.
Join(a, b) ==
    IF a = <<>> /\ b = <<>> THEN <<>>
    ELSE Clean(IF a = <<>> THEN b
               ELSE IF b = <<>> THEN a
               ELSE a \o <<"/">> \o b)

\* The index of the last "/" of p past the first from characters, 0 when
\* there is none.
LastSlash(p, from) ==
    LET slashes == {i \in (from + 1)..Len(p) : p[i] = "/"} IN
    IF slashes = {} THEN 0 ELSE CHOOSE i \in slashes : \A j \in slashes : i >= j

\* path.Base: the last element; "." for the empty path, "/" for slashes only.
Base(p) ==
    LET kept == {i \in 1..Len(p) : \E j \in i..Len(p) : p[j] # "/"}
        trimmed == SubSeq(p, 1, Cardinality(kept))
    IN IF p = <<>> THEN <<".">>
       ELSE IF trimmed = <<>> THEN <<"/">>
       ELSE SubSeq(trimmed, LastSlash(trimmed, 0) + 1, Len(trimmed))

\* filepath.Dir: the path up to its last "/", cleaned.
Dir(p) == Clean(SubSeq(p, 1, LastSlash(p, 0)))

\* The number of leading elements that two lists of elements share.
RECURSIVE Shared(_, _)
Shared(a, b) ==
    IF a = <<>> \/ b = <<>> \/ a[1] # b[1] THEN 0
    ELSE 1 + Shared(Tail(a), Tail(b))

\* filepath.Rel(basepath, targpath): the path that leads from the one to the
\* other; an error when one of the two is absolute and the other is not, or
\* when the base goes up where the target does not.
RelElements(be, te, k) ==
    IF k < Len(be) /\ k < Len(te) /\ be[k + 1] = <<".", ".">>
    THEN [err |-> "Rel", path |-> <<>>]
    ELSE [err |-> "",
          path |-> JoinElements([i \in 1..(Len(be) - k) |-> <<".", ".">>]
                                   \o SubSeq(te, k + 1, Len(te)))]
RelShared(be, te) == RelElements(be, te, Shared(be, te))
RelCleaned(base, targ) ==
    IF targ = base THEN [err |-> "", path |-> <<".">>]
    ELSE IF IsAbs(base) # IsAbs(targ) THEN [err |-> "Rel", path |-> <<>>]
    ELSE RelShared(IF base = <<".">> THEN <<>> ELSE Elements(base),
                   Elements(targ))
Rel(basepath, targpath) == RelCleaned(Clean(basepath), Clean(targpath))

\* pathcheck.go:139-163: the reason ValidateFilename rejects name, "" when
\* it accepts it.
ValidateFilename(name) ==
    IF Len(name) > MaxFilenameLength THEN "too long"
    ELSE IF Contains(name, <<CharOf(0)>>) THEN "null bytes"
    ELSE IF Contains(name, <<"/">>) \/ Contains(name, <<"\\">>)
         THEN "path separator"
    ELSE IF Contains(name, <<".", ".">>) THEN "directory traversal"
    ELSE IF \E i \in 1..Len(name) : Code(name[i]) < 32
         THEN "control character"
    ELSE ""

\* pathcheck.go:166-186: the reason ValidatePath rejects p, "" when it
\* accepts it.
ValidateBase(base) ==
    IF base \notin {<<".">>, <<"/">>} THEN ValidateFilename(base) ELSE ""
ValidatePath(p) ==
    IF Contains(p, <<CharOf(0)>>) THEN "null bytes"
    ELSE IF Contains(p, <<".", ".">>) THEN "directory traversal"
    ELSE ValidateBase(Base(p))

\* ------------------------------------------------------------------ files

\* The permission bits 0644, 0600 and 0755 with the setuid bit.
Modes == {420, 384, 2541}

\* The mode of a file that Create makes anew (0666 under umask 022).
CreateMode == 420

\* sftp.go:55 and config.go:418: 0644.
DefaultMode == 420

\* The mode Lstat reports for a symbolic link: 0777.
LinkMode == 511

\* The umask of both machines: 022.
Umask == 18

\* The links that open, stat and the like follow in one path (MAXSYMLINKS),
\* and those that filepath.EvalSymlinks does.
MaxSymlinks == 40
MaxLinksWalked == 255

\* The bytes one SFTP packet carries, and one Read of io.Copy takes.
PacketLen == 1

\* fs.FileMode.Perm(): the low nine bits.
Perm(m) == m % 512

\* m &^ mask for a mask of permission bits.
RECURSIVE ClearBits(_, _, _)
ClearBits(m, mask, bit) ==
    IF bit > 256 THEN m
    ELSE ClearBits(IF (mask \div bit) % 2 = 1 /\ (m \div bit) % 2 = 1
                   THEN m - bit ELSE m,
                   mask, 2 * bit)

\* A regular file and a symbolic link.
RegularFile(data, mode) ==
    [exists |-> TRUE, kind |-> "file", data |-> data, mode |-> mode, target |-> <<>>]
Symlink(target) ==
    [exists |-> TRUE, kind |-> "link", data |-> <<>>, mode |-> LinkMode, target |-> target]

\* A file system is a map from the absolute clean path of each of its nodes
\* to the node; the root directory is always there.  Lookup is the node
\* under such a path, Stored the file system with the node put there.
Lookup(files, path) ==
    IF path = <<"/">> THEN Directory(DirMode)
    ELSE IF path \in DOMAIN files THEN files[path] ELSE NoFile
Stored(files, path, file) ==
    [x \in DOMAIN files \cup {path} |-> IF x = path THEN file ELSE files[x]]

\* The path of the entry name of the directory dir, and the names of the
\* entries of dir.
Child(dir, name) ==
    IF dir = <<"/">> THEN dir \o name ELSE dir \o <<"/">> \o name
Names(files, dir) ==
    {Base(x) : x \in {y \in DOMAIN files : y # <<"/">> /\ Dir(y) = dir}}

\* The outcome of a path lookup: the errno ("" for none) and the absolute
\* clean path found; with ENOENT, the path that could be created, if only
\* the last element is missing.
Found(path) == [err |-> "", path |-> path]
Failed(err, path) == [err |-> err, path |-> path]

\* What the kernel walks for a path: its elements, and "." after a trailing
\* "/".
Components(p) ==
    Elements(p) \o (IF p # <<>> /\ p[Len(p)] = "/" THEN << <<".">> >> ELSE <<>>)

\* Path resolution from the node cur over the components toks: an element that
\* is not the last must be a directory or a link to one; the last one is
\* followed when it is a link and follow is set; n links may still be
\* followed.
RECURSIVE Walk(_, _, _, _, _)
Walk(files, cur, toks, follow, n) ==
    IF toks = <<>> THEN Found(cur)
    ELSE IF Lookup(files, cur).kind # "dir" THEN Failed("ENOTDIR", <<>>)
    ELSE IF toks[1] = <<".">> THEN Walk(files, cur, Tail(toks), follow, n)
    ELSE IF toks[1] = <<".", ".">>
         THEN Walk(files, Dir(cur), Tail(toks), follow, n)
    ELSE IF ~Lookup(files, Child(cur, toks[1])).exists
         THEN Failed("ENOENT", IF Len(toks) = 1 THEN Child(cur, toks[1]) ELSE <<>>)
    ELSE IF Lookup(files, Child(cur, toks[1])).kind = "link"
               /\ (Len(toks) > 1 \/ follow)
         THEN IF n = 0 THEN Failed("ELOOP", <<>>)
              ELSE Walk(files,
                        IF IsAbs(Lookup(files, Child(cur, toks[1])).target)
                        THEN <<"/">> ELSE cur,
                        Components(Lookup(files, Child(cur, toks[1])).target)
                            \o Tail(toks),
                        follow, n - 1)
    ELSE Walk(files, Child(cur, toks[1]), Tail(toks), follow, n)

\* The lookup of path by a process whose working directory is cwd.
Resolve(files, cwd, path, follow) ==
    IF path = <<>> THEN Failed("ENOENT", <<>>)
    ELSE IF Contains(path, <<CharOf(0)>>) THEN Failed("EINVAL", <<>>)
    ELSE Walk(files, IF IsAbs(path) THEN <<"/">> ELSE cwd, Components(path),
              follow, MaxSymlinks)

\* lstat(2) and stat(2): the node found, NoFile with the error.
NodeAt(files, r) ==
    [err |-> r.err, path |-> r.path,
     node |-> IF r.err = "" THEN Lookup(files, r.path) ELSE NoFile]
Lstat(files, cwd, path) == NodeAt(files, Resolve(files, cwd, path, FALSE))
Stat(files, cwd, path) == NodeAt(files, Resolve(files, cwd, path, TRUE))

\* open(2) for reading, as os.Open and the SFTP server do: the path of the
\* file opened, which may be a directory.
Open(files, cwd, path) == Resolve(files, cwd, path, TRUE)

\* open(2) with O_CREAT|O_TRUNC, as os.Create and sftp Create do: an
\* existing file is emptied and keeps its mode, a missing one is made in its
\* directory, also where a dangling link points; the path of the file
\* opened, and the files after it.
CreateAt(files, path, r) ==
    IF path # <<>> /\ path[Len(path)] = "/"
    THEN [err |-> "EISDIR", path |-> <<>>, files |-> files]
    ELSE IF r.err = "" /\ Lookup(files, r.path).kind = "dir"
    THEN [err |-> "EISDIR", path |-> <<>>, files |-> files]
    ELSE IF r.err = ""
    THEN [err |-> "", path |-> r.path,
          files |-> Stored(files, r.path,
                           [Lookup(files, r.path) EXCEPT !.data = <<>>])]
    ELSE IF r.err = "ENOENT" /\ r.path # <<>>
    THEN [err |-> "", path |-> r.path,
          files |-> Stored(files, r.path, RegularFile(<<>>, CreateMode))]
    ELSE [err |-> r.err, path |-> <<>>, files |-> files]
Create(files, cwd, path) ==
    CreateAt(files, path, Resolve(files, cwd, path, TRUE))

\* chmod(2): the mode of the file the path leads to is set.
ChmodAt(files, r, mode) ==
    IF r.err # "" THEN [err |-> r.err, files |-> files]
    ELSE IF r.path = <<"/">> THEN [err |-> "", files |-> files]
    ELSE [err |-> "",
          files |-> Stored(files, r.path,
                           [Lookup(files, r.path) EXCEPT !.mode = mode])]
Chmod(files, cwd, path, mode) ==
    ChmodAt(files, Resolve(files, cwd, path, TRUE), mode)

\* The path without the "/" at its end.
RECURSIVE TrimSlashes(_)
TrimSlashes(p) ==
    IF p # <<>> /\ p[Len(p)] = "/" THEN TrimSlashes(SubSeq(p, 1, Len(p) - 1))
    ELSE p

\* mkdir(2) with the mode perm under the umask: the directory is made where
\* nothing is.
MkdirAt(files, r, perm) ==
    IF r.err = "" THEN [err |-> "EEXIST", files |-> files]
    ELSE IF r.err = "ENOENT" /\ r.path # <<>>
    THEN [err |-> "",
          files |-> Stored(files, r.path, Directory(ClearBits(perm, Umask, 1)))]
    ELSE [err |-> r.err, files |-> files]
MkdirTrimmed(files, cwd, path, trimmed, perm) ==
    MkdirAt(files,
            IF path # <<>> /\ trimmed = <<>> THEN Found(<<"/">>)
            ELSE Resolve(files, cwd, trimmed, FALSE),
            perm)
Mkdir(files, cwd, path, perm) ==
    MkdirTrimmed(files, cwd, path, TrimSlashes(path), perm)

\* The argument of the recursive call of sftp MkdirAll: the path without
\* its last element and the "/" before it; <<>> when there is no call to
\* make.
MkdirAllCut(path, j) == IF j > 1 THEN SubSeq(path, 1, j - 1) ELSE <<>>
MkdirAllParent(path) == MkdirAllCut(path, LastSlash(TrimSlashes(path), 0))

\* The argument of the recursive call of os.MkdirAll: the path up to its
\* last element, with the "/" before it; <<>> when there is no call to make.
OsMkdirAllParent(path) == SubSeq(path, 1, LastSlash(TrimSlashes(path), 0))

\* os.MkdirAll(path, perm), all of it on this machine: nothing to do for a
\* directory, an error for another file, else the parent is made first,
\* then Mkdir, whose error counts unless the directory is there after all.
RECURSIVE MkdirAll(_, _, _, _)
MkdirAllMade(up, made, again) ==
    IF made.err = "" THEN made
    ELSE IF again.err = "" /\ again.node.kind = "dir"
    THEN [err |-> "", files |-> up.files]
    ELSE [err |-> made.err, files |-> up.files]
MkdirAllUnder(cwd, path, perm, up) ==
    IF up.err # "" THEN up
    ELSE MkdirAllMade(up, Mkdir(up.files, cwd, path, perm),
                      Lstat(up.files, cwd, path))
MkdirAllFrom(files, cwd, path, perm, st, parent) ==
    IF st.err = "" /\ st.node.kind = "dir" THEN [err |-> "", files |-> files]
    ELSE IF st.err = "" THEN [err |-> "ENOTDIR", files |-> files]
    ELSE MkdirAllUnder(cwd, path, perm,
                       IF parent = <<>> THEN [err |-> "", files |-> files]
                       ELSE MkdirAll(files, cwd, parent, perm))
MkdirAll(files, cwd, path, perm) ==
    MkdirAllFrom(files, cwd, path, perm, Stat(files, cwd, path),
                 OsMkdirAllParent(path))

\* The path x is dir or lies under it.
Beneath(x, dir) ==
    x = dir \/ dir = <<"/">> \/ StartsWith(x, dir \o <<"/">>)

\* The file system with the node under from, and all that lies under it,
\* put under to, where nothing lies, or what lies there is replaced.
Moved(files, from, to) ==
    LET stay == {x \in DOMAIN files : ~Beneath(x, from) /\ x # to}
        image(x) == to \o SubSeq(x, Len(from) + 1, Len(x))
        moved == {image(x) : x \in {y \in DOMAIN files : Beneath(y, from)}}
    IN [x \in stay \cup moved |->
           IF x \in moved THEN files[from \o SubSeq(x, Len(to) + 1, Len(x))]
           ELSE files[x]]

\* The last element of the path is "." or "..".
EndsInDot(path) ==
    LET es == Elements(path) IN
    es # <<>> /\ es[Len(es)] \in {<<".">>, <<".", ".">>}

\* The outcome of a rename: the errno, the files after it, and the paths
\* from and to of the node that moved, with all that lies under it.
NotMoved(err, files) ==
    [err |-> err, files |-> files, from |-> <<>>, to |-> <<>>]
MovedTo(files, from, to) ==
    [err |-> "", files |-> Moved(files, from, to), from |-> from, to |-> to]

\* rename(2) of the file o, which is not a regular file, to the place n,
\* where stat found no file: a directory does not move into itself nor
\* onto a link, a link takes the place of a link; then the new name must
\* be free in a directory that is there.
RenameTo(files, o, n) ==
    IF n.err = ""
    THEN IF Lookup(files, o.path).kind = "dir"
         THEN NotMoved("ENOTDIR", files)
         ELSE MovedTo(files, o.path, n.path)
    ELSE IF n.err = "ENOENT" /\ n.path # <<>>
    THEN IF Beneath(n.path, o.path) THEN NotMoved("EINVAL", files)
         ELSE MovedTo(files, o.path, n.path)
    ELSE NotMoved(n.err, files)

\* link(2) of the regular file o to the place n and unlink(2) of o: the
\* new name must be free in a directory that is there.
LinkTo(files, o, n) ==
    IF n.err = "" THEN NotMoved("EEXIST", files)
    ELSE IF n.err = "ENOENT" /\ n.path # <<>>
    THEN MovedTo(files, o.path, n.path)
    ELSE NotMoved(n.err, files)

\* What the SFTP server does with a rename request (SSH_FXP_RENAME, which
\* sftp Rename sends): lstat of the old path; a regular file is linked to
\* the new path and unlinked; another file is renamed with rename(2) when
\* stat of the new path finds no file, and the request fails when it
\* finds one.  A path that ends in "/" names a directory only.
RenameFrom(files, cwd, old, new, st, entry) ==
    IF st.err # "" THEN NotMoved(st.err, files)
    ELSE IF EndsInDot(old) \/ EndsInDot(new) \/ st.path = <<"/">>
    THEN NotMoved("EBUSY", files)
    ELSE IF Lookup(files, st.path).kind = "file"
    THEN LinkTo(files, st, Resolve(files, cwd, new, FALSE))
    ELSE IF Resolve(files, cwd, new, TRUE).err = ""
    THEN NotMoved("FAILURE", files)
    ELSE IF entry.err # "" THEN NotMoved(entry.err, files)
    ELSE IF Lookup(files, entry.path).kind # "dir"
               /\ (old # TrimSlashes(old) \/ new # TrimSlashes(new))
    THEN NotMoved("ENOTDIR", files)
    ELSE RenameTo(files, entry, Resolve(files, cwd, TrimSlashes(new), FALSE))
Rename(files, cwd, old, new) ==
    RenameFrom(files, cwd, old, new, Resolve(files, cwd, old, FALSE),
               Resolve(files, cwd, TrimSlashes(old), FALSE))

\* An open file or directory is named by the path its node lies under;
\* when a rename moves the node, the name of the handle moves with it.
Retarget(handle, from, to) ==
    IF handle # <<>> /\ Beneath(handle, from)
    THEN to \o SubSeq(handle, Len(from) + 1, Len(handle))
    ELSE handle

\* What a read at offset off of the open file under path gives: at most
\* PacketLen bytes, eof at the end of the file, an error for a directory.
ReadAt(files, path, off) ==
    LET node == Lookup(files, path) IN
    IF node.kind # "file" THEN [err |-> "EISDIR", eof |-> FALSE, data |-> <<>>]
    ELSE IF off >= Len(node.data) THEN [err |-> "", eof |-> TRUE, data |-> <<>>]
    ELSE [err |-> "", eof |-> FALSE,
          data |-> SubSeq(node.data, off + 1,
                          IF off + PacketLen < Len(node.data)
                          THEN off + PacketLen ELSE Len(node.data))]

\* The bytes data with chunk written at offset off; a hole reads as zeros.
Overwritten(data, off, chunk) ==
    [i \in 1..(IF Len(data) > off + Len(chunk) THEN Len(data) ELSE off + Len(chunk)) |->
        IF i > off /\ i <= off + Len(chunk) THEN chunk[i - off]
        ELSE IF i <= Len(data) THEN data[i]
        ELSE CharOf(0)]

\* The files after a write of chunk at offset off to the open file under
\* path.
WriteAt(files, path, off, chunk) ==
    Stored(files, path,
           [Lookup(files, path) EXCEPT !.data = Overwritten(@, off, chunk)])

\* The first part of data that one packet carries from offset off on.
Packet(data, off) ==
    SubSeq(data, off + 1,
           IF off + PacketLen < Len(data) THEN off + PacketLen ELSE Len(data))

\* The order of the bytes of names.
RECURSIVE Less(_, _)
Less(a, b) ==
    IF b = <<>> THEN FALSE
    ELSE IF a = <<>> THEN TRUE
    ELSE IF a[1] = b[1] THEN Less(Tail(a), Tail(b))
    ELSE Code(a[1]) < Code(b[1])

\* readDirNames of filepath.Walk: the names of a directory, sorted.
RECURSIVE SortedNames(_)
SortedNames(S) ==
    IF S = {} THEN <<>>
    ELSE LET m == CHOOSE x \in S : \A y \in S \ {x} : Less(x, y)
         IN <<m>> \o SortedNames(S \ {m})

\* The orders in which a server may list the names S.
Orders(S) ==
    {o \in [1..Cardinality(S) -> S] : \A i, j \in DOMAIN o : i # j => o[i] # o[j]}

\* filepath.Abs on this machine.
Abs(p) == IF IsAbs(p) THEN Clean(p) ELSE Join(WorkDir, p)

\* One turn of the loop of walkSymlinks (filepath.EvalSymlinks): w.dest is
\* what the path walked so far leads to, w.path what is left to walk, w.vol
\* the number of characters of w.dest that ".." cannot remove, w.n the links
\* walked; w.done when the loop has ended, with the error w.err.
walkBack(w, rest, cut) ==
    IF cut = 0 \/ SubSeq(w.dest, cut + 1, Len(w.dest)) = <<".", ".">>
    THEN [w EXCEPT !.path = rest,
                   !.dest = (IF Len(@) > w.vol THEN @ \o <<"/">> ELSE @)
                               \o <<".", ".">>]
    ELSE [w EXCEPT !.path = rest, !.dest = SubSeq(@, 1, cut - 1)]
walkLink(w, rest, added, target, back) ==
    IF w.n + 1 > MaxLinksWalked
    THEN [w EXCEPT !.done = TRUE, !.err = "too many links"]
    ELSE IF IsAbs(target)
    THEN [w EXCEPT !.vol = 1, !.dest = <<"/">>, !.n = @ + 1,
                   !.path = SubSeq(target, 2, Len(target)) \o rest]
    ELSE [w EXCEPT !.n = @ + 1, !.path = target \o rest,
                   !.dest = IF back = 0 THEN SubSeq(added, 1, w.vol)
                            ELSE SubSeq(added, 1, back - 1)]
walkInto(w, rest, added, st) ==
    IF st.err # "" THEN [w EXCEPT !.done = TRUE, !.err = st.err]
    ELSE IF st.node.kind # "link"
    THEN IF st.node.kind # "dir" /\ rest # <<>>
         THEN [w EXCEPT !.done = TRUE, !.err = "ENOTDIR"]
         ELSE [w EXCEPT !.path = rest, !.dest = added]
    ELSE walkLink(w, rest, added, st.node.target, LastSlash(added, w.vol))
walkAdded(files, w, rest, added) ==
    walkInto(w, rest, added, Lstat(files, WorkDir, added))
walkElement(files, w, first, rest) ==
    IF first = <<".">> THEN [w EXCEPT !.path = rest]
    ELSE IF first = <<".", ".">>
    THEN walkBack(w, rest, LastSlash(w.dest, w.vol))
    ELSE walkAdded(files, w, rest,
                   (IF w.dest # <<>> /\ w.dest[Len(w.dest)] # "/"
                    THEN w.dest \o <<"/">> ELSE w.dest) \o first)
walkFirst(files, w, first, lead) ==
    walkElement(files, w, first,
                SubSeq(w.path, lead + Len(first) + 1, Len(w.path)))
walkElements(files, w, es) ==
    IF es = <<>> THEN [w EXCEPT !.done = TRUE]
    ELSE walkFirst(files, w, es[1],
                   CHOOSE i \in 0..Len(w.path) :
                       /\ \A j \in 1..i : w.path[j] = "/"
                       /\ i = Len(w.path) \/ w.path[i + 1] # "/")
walkStep(files, w) == walkElements(files, w, Elements(w.path))

\* The loop of walkSymlinks when it has ended, or after k turns if it has
\* not ended by then.
RECURSIVE walkLoop(_, _, _)
walkLoop(files, w, k) ==
    IF w.done THEN w
    ELSE IF k <= 1 THEN walkStep(files, w)
    ELSE walkLoop(files, walkLoop(files, w, k \div 2), k - (k \div 2))

\* The length of the longest link target.
RECURSIVE MaxTarget(_, _)
MaxTarget(files, S) ==
    IF S = {} THEN 0
    ELSE LET x == CHOOSE y \in S : TRUE
             rest == MaxTarget(files, S \ {x})
         IN IF Len(files[x].target) > rest THEN Len(files[x].target) ELSE rest

\* The turns the loop of walkSymlinks can take at most: one for each element
\* of the path and of the targets of the links it may walk, one for each
\* link, and the last.
walkTurns(files, path) ==
    Len(path) + (MaxLinksWalked + 1) * (MaxTarget(files, DOMAIN files) + 1) + 1

\* filepath.EvalSymlinks on this machine: the path with its links followed,
\* or the error of the Lstat that failed.
walkSymlinks(w) ==
    IF w.err # "" THEN Failed(w.err, <<>>) ELSE Found(Clean(w.dest))
EvalSymlinks(files, path) ==
    walkSymlinks(walkLoop(files,
                          IF IsAbs(path)
                          THEN [vol |-> 1, dest |-> <<"/">>, n |-> 0,
                                done |-> FALSE, err |-> "",
                                path |-> SubSeq(path, 2, Len(path))]
                          ELSE [vol |-> 0, dest |-> <<>>, n |-> 0,
                                done |-> FALSE, err |-> "", path |-> path],
                          walkTurns(files, path)))

\* The server's answer to the SFTP request realpath: the absolute path with
\* its links followed; the last element may be missing.
RealPathOf(r) ==
    IF r.err = "ENOENT" /\ r.path # <<>> THEN Found(r.path) ELSE r
RealPath(files, path) ==
    RealPathOf(Resolve(files, HomeDir, IF path = <<>> THEN <<".">> ELSE path,
                       TRUE))

\* sftp.go:37-44: the path RealPath gives when the link is up and the server
\* resolves the path; the path as it is otherwise.
Expanded(up, remotePath, r) ==
    IF up /\ r.err = "" THEN r.path ELSE remotePath
ExpandRemotePath(files, up, remotePath) ==
    Expanded(up, remotePath, RealPath(files, remotePath))

\* pathcheck.go:238 and 245: strings.HasPrefix(finalPath, base + "/") or
\* finalPath == base.
Within(finalPath, base) ==
    StartsWith(finalPath, base \o <<"/">>) \/ finalPath = base

\* pathcheck.go:217-250 with the values the lines before compute: the
\* outcome of Lstat(absPath), of EvalSymlinks on absPath, on its parent and
\* on absBase.
CheckFinal(finalPath, absBase, base) ==
    IF Within(finalPath, absBase) THEN ""
    ELSE IF base.err # "" THEN "resolve symlinks for base"
    ELSE IF Within(finalPath, base.path) THEN ""
    ELSE "outside base directory"
CheckBase(localPath, absPath, absBase, st, whole, parent, viaParent, base) ==
    IF st.err = "" /\ whole.err # "" THEN "resolve symlinks"
    ELSE IF st.err \notin {"", "ENOENT"} THEN "failed to check path"
    ELSE IF st.err = "ENOENT" /\ parent \notin {<<".">>, <<"/">>}
            /\ viaParent.err # ""
    THEN "resolve symlinks for parent"
    ELSE CheckFinal(IF st.err = "" THEN whole.path
                    ELSE IF parent \notin {<<".">>, <<"/">>}
                    THEN Join(viaParent.path, Base(absPath))
                    ELSE absPath,
                    absBase, base)

\* pathcheck.go:191-251: the reason ValidateLocalPath rejects localPath, ""
\* when it accepts it.
CheckParent(localPath, absPath, absBase, parent) ==
    CheckBase(localPath, absPath, absBase,
              Lstat(fs.local, WorkDir, absPath),
              EvalSymlinks(fs.local, absPath),
              parent,
              EvalSymlinks(fs.local, parent),
              EvalSymlinks(fs.local, absBase))
CheckAbs(localPath, absPath, absBase) ==
    CheckParent(localPath, absPath, absBase, Dir(absPath))
ValidateLocalPath(localPath, baseDir) ==
    IF Contains(localPath, <<CharOf(0)>>) THEN "null bytes"
    ELSE IF Contains(localPath, <<".", ".">>) THEN "directory traversal"
    ELSE IF baseDir = <<>> THEN ""
    ELSE CheckAbs(localPath, Abs(localPath), Abs(baseDir))

\* ------------------------------------------------- file transfer tools

TransferTools ==
    {"ssh_upload_file", "ssh_download_file",
     "ssh_upload_directory", "ssh_download_directory"}

\* The SFTP sessions the file tools open in one run.
MaxChannels == 2

\* file_upload.go:21-26, file_download.go:21-26, unnamed/part_006:21-26,
\* unnamed/part_004:21-26, config.go:307-309 (ssh_edit_file), config.go:
\* 253-258 (ssh_rename), unnamed/part_003:20-22 (ssh_list_directory),
\* unnamed/part_005:21-23 (ssh_file_stat): the error of the validation
\* that opens the handler and the error it wraps, the reason of
\* ValidateLocalPath or else of ValidatePath; "" when the paths pass.
Wrapped(localErr, remoteErr) ==
    IF localErr # "" THEN [err |-> "invalid local path", cause |-> localErr]
    ELSE IF remoteErr # ""
    THEN [err |-> "invalid remote path", cause |-> remoteErr]
    ELSE [err |-> "", cause |-> ""]
Named(label, reason) ==
    IF reason # "" THEN [err |-> label, cause |-> reason]
    ELSE [err |-> "", cause |-> ""]
ValidationError(input) ==
    CASE input.tool \in TransferTools
           -> Wrapped(ValidateLocalPath(input.LocalPath, sshConfig.LocalBaseDir),
                      ValidatePath(input.RemotePath))
      [] input.tool = "ssh_rename"
           -> IF ValidatePath(input.OldPath) # ""
              THEN Named("invalid old path", ValidatePath(input.OldPath))
              ELSE Named("invalid new path", ValidatePath(input.NewPath))
      [] input.tool = "ssh_list_directory"
           -> Named("invalid path", ValidatePath(input.Path))
      [] OTHER
           -> Named("invalid remote path", ValidatePath(input.RemotePath))

\* The error return of a tool call.
ToolError(p, err) == Ret(p, loc[p].input.tool, loc[p].id, NoSess, err, NoSess)

\* A tool call arrives: the handler starts with the call's input.
FileCall(p, input) ==
    /\ pc[p] = "idle"
    /\ Goto(p, "f_check",
            [BlankLocals EXCEPT !.id = input.SessionID, !.input = input],
            conns, sess, clients)

\* The handler without the validation: the session is resolved at once.
HandleFileCallNoCheck(p) ==
    /\ pc[p] = "f_check"
    /\ GetLookup(p, loc[p].id, loc[p].input)

\* file_upload.go:20-28, file_download.go:20-28, unnamed/part_006:20-28,
\* unnamed/part_004:20-28, config.go:306-311 and 252-260, unnamed/part_003:
\* 19-24, unnamed/part_005:20-25: the paths are validated; a rejected call
\* returns; else Pool.GetConnection starts.
Validated(p, v) ==
    IF v.err # ""
    THEN Return(p, [ToolError(p, v.err) EXCEPT !.cause = v.cause],
                conns, sess, clients)
    ELSE GetLookup(p, loc[p].id, loc[p].input)
HandleFileCall(p) ==
    /\ pc[p] = "f_check"
    /\ Validated(p, ValidationError(loc[p].input))

\* unnamed/part_001:91-96: the rate limiter the file tools are given: the
\* server's when cfg.Security.RateLimitFileOps is set (TRUE), nil (FALSE)
\* when it is not.
fileOpsRateLimiter == sshConfig.RateLimitFileOps

\* helpers.go:14-25: getConnectionWithRateLimit holds the session that
\* GetConnection returned; with a rate limiter it calls
\* RateLimiter.Allow(conn.Host), which enters getLimiter; with none it
\* returns the session, and the handler takes the session's client to open
\* the SFTP subsystem on.
FileAllow(p) ==
    /\ pc[p] = "x_hold"
    /\ loc[p].input # NoInput
    /\ AllowReturned(p)
    /\ IF fileOpsRateLimiter
       THEN /\ rl' = AllowEnter(p, sess[loc[p].conn].Host)
            /\ UpdatePool([pc EXCEPT ![p] = "f_allow"], loc, NoRet,
                          conns, sess, clients, mu, now)
       ELSE /\ rl' = rl
            /\ UpdatePool([pc EXCEPT ![p] = "f_sftp"],
                          [loc EXCEPT ![p].client = sess[loc[p].conn].Client],
                          NoRet, conns, sess, clients, mu, now)
    /\ UNCHANGED <<filter, verdict, rpm, remote, sshConfig, fs>>

\* helpers.go:19-25 and the handlers' read of conn.Client: Allow has
\* returned; its refusal is returned, else the handler takes the session's
\* client to open the SFTP subsystem on.
FileAdmit(p) ==
    /\ pc[p] = "f_allow"
    /\ AllowReturned(p)
    /\ rl' = [rl EXCEPT !.call[p] = NoCall]
    /\ IF ~rl.call[p].ok
       THEN UpdatePool([pc EXCEPT ![p] = "idle"],
                       [loc EXCEPT ![p] = BlankLocals],
                       ToolError(p, "ratelimit"), conns, sess, clients, mu, now)
       ELSE UpdatePool([pc EXCEPT ![p] = "f_sftp"],
                       [loc EXCEPT ![p].client = sess[loc[p].conn].Client],
                       NoRet, conns, sess, clients, mu, now)
    /\ UNCHANGED <<filter, verdict, rpm, remote, sshConfig, fs>>

\* A step of a tool body that does not return: p goes to label with the
\* call's input and the working values w, and the files become files.
FileStep(p, label, input, w, files) ==
    /\ UpdatePool([pc EXCEPT ![p] = label],
                  [loc EXCEPT ![p] = [loc[p] EXCEPT !.input = input, !.work = w]],
                  NoRet, conns, sess, clients, mu, now)
    /\ fs' = files
    /\ UNCHANGED <<filter, verdict, rpm, remote, sshConfig, rl>>

\* A step of a tool body that returns r and leaves the files files.
FileReturn(p, r, files) ==
    /\ UpdatePool([pc EXCEPT ![p] = "idle"], [loc EXCEPT ![p] = BlankLocals],
                  r, conns, sess, clients, mu, now)
    /\ fs' = files
    /\ UNCHANGED <<filter, verdict, rpm, remote, sshConfig, rl>>

\* The successful return of a tool call with the output out.
ToolDone(p, out) ==
    [Ret(p, loc[p].input.tool, loc[p].id, NoSess, "", NoSess)
        EXCEPT !.input = loc[p].input, !.out = out]

\* The client that the call's SFTP subsystem was opened on answers.
Up(p) == isAlive(loc[p].client)

\* The file the path leads to on this machine and on the host, NoFile when
\* it leads to none.
LocalNode(files, path) == Stat(files, WorkDir, path).node
RemoteNode(files, path) == Stat(files, HomeDir, path).node

\* sftp.go:28-34: sftp.NewClient starts with NewSession on the client the
\* handler took, one request: a closed or lost client gives the error; else
\* the host has opened one more channel, of which at most MaxChannels are
\* opened for file tools.
NewSFTPClient(p) ==
    /\ pc[p] = "f_sftp"
    /\ IF Up(p)
       THEN /\ remote.channels < MaxChannels
            /\ UpdatePool([pc EXCEPT ![p] = "f_subsystem"], loc, NoRet,
                          conns, sess, clients, mu, now)
            /\ remote' = [remote EXCEPT !.channels = @ + 1]
            /\ UNCHANGED <<filter, verdict, rpm, sshConfig, fs, rl>>
       ELSE FileReturn(p, ToolError(p, "sftp"), fs)

\* sftp.go:28-34: sftp.NewClient asks for the subsystem "sftp" on the new
\* channel, one request; when the link is lost or the host does not serve
\* the subsystem the error is returned, and the channel stays opened.
RequestSubsystem(p, served) ==
    /\ pc[p] = "f_subsystem"
    /\ IF Up(p) /\ served
       THEN FileStep(p, "f_version", loc[p].input, loc[p].work, fs)
       ELSE FileReturn(p, ToolError(p, "sftp"), fs)

\* sftp.go:28-34: sftp.NewClient sends its version and waits for the
\* server's; a lost link gives the error.
NewClientPipe(p) ==
    /\ pc[p] = "f_version"
    /\ IF Up(p)
       THEN FileStep(p, "f_expand", loc[p].input, loc[p].work, fs)
       ELSE FileReturn(p, ToolError(p, "sftp"), fs)

\* The place where the body of each tool starts.
BodyOf(tool) ==
    CASE tool = "ssh_upload_file" -> "up_open"
      [] tool = "ssh_download_file" -> "dn_open"
      [] tool = "ssh_upload_directory" -> "ud_walk"
      [] tool = "ssh_download_directory" -> "dd_root"
      [] tool = "ssh_rename" -> "rn_expand"
      [] tool = "ssh_list_directory" -> "ls_read"
      [] tool = "ssh_file_stat" -> "st_stat"
      [] OTHER -> "ed_run"

\* The remote path of a call that the handler expands first, and the input
\* with the expanded path in its place.
RemotePathOf(input) ==
    CASE input.tool = "ssh_rename" -> input.OldPath
      [] input.tool = "ssh_list_directory" -> input.Path
      [] OTHER -> input.RemotePath
WithRemotePath(input, path) ==
    CASE input.tool = "ssh_rename" -> [input EXCEPT !.OldPath = path]
      [] input.tool = "ssh_list_directory" -> [input EXCEPT !.Path = path]
      [] OTHER -> [input EXCEPT !.RemotePath = path]

\* file_upload.go:39, file_download.go:39, unnamed/part_006:39,
\* unnamed/part_004:39, config.go:322 and 271, unnamed/part_003:35,
\* unnamed/part_005:36: the remote path of the input becomes what
\* ExpandRemotePath gives, and the body starts with the paths of the call.
FileExpand(p) ==
    LET input == loc[p].input
        path == ExpandRemotePath(fs.remote, Up(p), RemotePathOf(input))
        local == IF input.tool \in TransferTools THEN input.LocalPath ELSE <<>>
    IN
    /\ pc[p] = "f_expand"
    /\ FileStep(p, BodyOf(input.tool), WithRemotePath(input, path),
                [NoWork EXCEPT !.local = local, !.remote = path,
                               !.ldir = local, !.rdir = path,
                               !.stack = <<local>>],
                fs)

\* config.go:272: input.NewPath becomes what ExpandRemotePath gives.
RenameExpand(p) ==
    LET input == loc[p].input IN
    /\ pc[p] = "rn_expand"
    /\ FileStep(p, "rn_run",
                [input EXCEPT !.NewPath =
                    ExpandRemotePath(fs.remote, Up(p), input.NewPath)],
                loc[p].work, fs)

\* config.go:274-280: sftp Rename of the old path to the new, one request;
\* the message names the two paths.  The files and directories that other
\* calls hold open stay open and are found under the new path.
HandleRename(p) ==
    LET input == loc[p].input
        renamed == Rename(fs.remote, HomeDir, input.OldPath, input.NewPath)
    IN
    /\ pc[p] = "rn_run"
    /\ IF ~Up(p) \/ renamed.err # ""
       THEN FileReturn(p, ToolError(p, "rename failed"), fs)
       ELSE /\ UpdatePool([pc EXCEPT ![p] = "idle"],
                          [q \in DOMAIN loc |->
                              IF q = p THEN BlankLocals
                              ELSE [loc[q] EXCEPT !.work.handle =
                                       Retarget(@, renamed.from, renamed.to)]],
                          ToolDone(p, [OldPath |-> input.OldPath,
                                       NewPath |-> input.NewPath]),
                          conns, sess, clients, mu, now)
            /\ fs' = [fs EXCEPT !.remote = renamed.files]
            /\ UNCHANGED <<filter, verdict, rpm, remote, sshConfig, rl>>

\* What a tool tells of a file: whether it is a directory or a link, its
\* permission bits and, for a regular file, its size.
FileInfo(node) ==
    IF node.kind = "file"
    THEN [IsDir |-> FALSE, IsSymlink |-> FALSE, Perm |-> Perm(node.mode),
          Size |-> Len(node.data)]
    ELSE [IsDir |-> node.kind = "dir", IsSymlink |-> node.kind = "link",
          Perm |-> Perm(node.mode)]

\* sftp.go:116-139: one entry of ListDir: the name, the path joined to the
\* directory's, and what ReadDir told about the file, which it does not
\* follow when it is a link.
FileEntry(dirPath, entry) ==
    [Name |-> entry.name, Path |-> Join(dirPath, entry.name),
     Info |-> FileInfo(entry.node)]

\* The place where ReadDir closes the directory, for each place where it
\* reads it.
CloseLabel(label) == IF label = "ls_readdir" THEN "ls_close" ELSE "dd_close"

\* The names of the open directory that no READDIR request has told yet.
Untold(files, w) ==
    {name \in Names(files, w.handle) :
        \A i \in DOMAIN w.entries : w.entries[i].name # name}

\* What a server can tell of the entry name of the open directory: what
\* the file is that lies in the directory, or what Lstat finds under the
\* path the directory was opened with; a server that takes Lstat leaves an
\* entry out when Lstat fails.
ByPath(files, w, name) == Lstat(files, HomeDir, Child(w.opened, name))
Told(files, w, name) ==
    {Lookup(files, Child(w.handle, name))}
       \cup IF ByPath(files, w, name).err = ""
            THEN {ByPath(files, w, name).node} ELSE {}

\* sftp.go:117 and 278 (sftp ReadDir): a READDIR request on the open
\* directory.  The first is answered with the names that are there, in the
\* order the server lists them, and what it tells of each; a later one
\* with names that have come since, or with the end of the directory.  A
\* lost link ends the loop with the error.
ReadDir(p) ==
    LET w == loc[p].work
        untold == Untold(fs.remote, w)
        sure == {name \in untold : ByPath(fs.remote, w, name).err = ""}
    IN
    /\ pc[p] \in {"ls_readdir", "dd_readdir"}
    /\ IF ~Up(p)
       THEN FileStep(p, CloseLabel(pc[p]), loc[p].input,
                     [w EXCEPT !.rderr = TRUE], fs)
       ELSE \E told \in {S \in SUBSET untold : w.begun \/ sure \subseteq S} :
               IF w.begun /\ told = {}
               THEN FileStep(p, CloseLabel(pc[p]), loc[p].input, w, fs)
               ELSE \E o \in Orders(told) :
                    \E nodes \in [DOMAIN o ->
                                    UNION {Told(fs.remote, w, name) : name \in told}] :
                       /\ \A i \in DOMAIN o : nodes[i] \in Told(fs.remote, w, o[i])
                       /\ FileStep(p, pc[p], loc[p].input,
                                   [w EXCEPT !.begun = TRUE,
                                             !.entries = @ \o
                                                [i \in DOMAIN o |->
                                                   [name |-> o[i], node |-> nodes[i]]]],
                                   fs)

\* unnamed/part_003:37-45 and sftp.go:116-139: ListDir starts ReadDir of
\* the path, which opens the directory, one request.
HandleListDirectory(p) ==
    LET input == loc[p].input
        w == loc[p].work
        opened == Open(fs.remote, HomeDir, input.Path)
    IN
    /\ pc[p] = "ls_read"
    /\ IF Up(p) /\ opened.err = "" /\ Lookup(fs.remote, opened.path).kind = "dir"
       THEN FileStep(p, "ls_readdir", input,
                     [w EXCEPT !.handle = opened.path, !.opened = input.Path,
                               !.entries = <<>>, !.begun = FALSE,
                               !.rderr = FALSE],
                     fs)
       ELSE FileReturn(p, ToolError(p, "list directory"), fs)

\* sftp.go:116-139 and unnamed/part_003:46-58: ReadDir closes the
\* directory, one request whose error it drops; the entries are returned
\* in the order the server listed them, or the error of ReadDir.
ListDir(p) ==
    LET w == loc[p].work IN
    /\ pc[p] = "ls_close"
    /\ IF w.rderr THEN FileReturn(p, ToolError(p, "list directory"), fs)
       ELSE FileReturn(p, ToolDone(p,
                [Entries |-> [i \in DOMAIN w.entries |->
                                 FileEntry(loc[p].input.Path, w.entries[i])],
                 Count |-> Len(w.entries)]), fs)

\* unnamed/part_005:38-64: Stat of the path, or Lstat when follow_symlinks
\* is given as false, one request.
HandleFileStat(p) ==
    LET input == loc[p].input
        follow == IF input.FollowSymlinks = <<>> THEN TRUE
                  ELSE input.FollowSymlinks[1]
        st == IF follow THEN Stat(fs.remote, HomeDir, input.RemotePath)
              ELSE Lstat(fs.remote, HomeDir, input.RemotePath)
    IN
    /\ pc[p] = "st_stat"
    /\ IF ~Up(p) \/ st.err # ""
       THEN FileReturn(p, ToolError(p, "stat file"), fs)
       ELSE FileReturn(p, ToolDone(p, [Name |-> Base(input.RemotePath),
                                       Path |-> input.RemotePath,
                                       Info |-> FileInfo(st.node)]), fs)

\* file_upload.go:43, file_download.go:43, unnamed/part_006:43,
\* unnamed/part_004:43: the label of the error of each transfer tool.
FailLabel(tool) ==
    CASE tool = "ssh_upload_file" -> "upload failed"
      [] tool = "ssh_download_file" -> "download failed"
      [] tool = "ssh_upload_directory" -> "upload directory"
      [] tool = "ssh_download_directory" -> "download directory"

\* The transfer fails: the tool returns its error, the files stay as the
\* steps so far have left them.
TransferFailed(p, files) ==
    FileReturn(p, ToolError(p, FailLabel(loc[p].input.tool)), files)

\* sftp.go:55-62 with every bit of the local mode kept.
UploadModeAllBits(perms, statOK, localMode) ==
    IF perms # <<>> THEN perms[1]
    ELSE IF statOK THEN localMode ELSE DefaultMode

\* sftp.go:55-62: the mode UploadFile applies: the given perms, else the
\* permission bits of the local file, else 0644 when Stat fails.
UploadMode(perms, statOK, localMode) ==
    IF perms # <<>> THEN perms[1]
    ELSE IF statOK THEN Perm(localMode) ELSE DefaultMode

\* sftp.go:48-62: os.Open of the local path as it was given, and Stat of
\* the open file.
UploadOpen(p) ==
    LET w == loc[p].work
        opened == Open(fs.local, WorkDir, w.local)
    IN
    /\ pc[p] = "up_open"
    /\ IF opened.err # "" THEN TransferFailed(p, fs)
       ELSE \E statOK \in BOOLEAN :
               FileStep(p, "up_create", loc[p].input,
                        [w EXCEPT !.src = opened.path,
                                  !.statOK = statOK,
                                  !.mode = UploadMode(w.perms, statOK,
                                               Lookup(fs.local, opened.path).mode)],
                        fs)

\* sftp.go:64-67: Create of the remote file, one request.
UploadCreate(p) ==
    LET w == loc[p].work
        created == Create(fs.remote, HomeDir, w.remote)
    IN
    /\ pc[p] = "up_create"
    /\ IF ~Up(p) \/ created.err # "" THEN TransferFailed(p, fs)
       ELSE FileStep(p, "up_copy", loc[p].input,
                     [w EXCEPT !.handle = created.path, !.off = 0],
                     [fs EXCEPT !.remote = created.files])

\* sftp.go:70-73: io.Copy reads the next bytes of the local file and writes
\* them to the open remote file, one request; what was written before the
\* copy fails stays.
UploadCopy(p) ==
    LET w == loc[p].work
        read == ReadAt(fs.local, w.src, w.off)
    IN
    /\ pc[p] = "up_copy"
    /\ IF read.err # "" THEN TransferFailed(p, fs)
       ELSE IF read.eof THEN FileStep(p, "up_chmod", loc[p].input, w, fs)
       ELSE IF ~Up(p) THEN TransferFailed(p, fs)
       ELSE FileStep(p, "up_copy", loc[p].input,
                     [w EXCEPT !.off = @ + Len(read.data)],
                     [fs EXCEPT !.remote = WriteAt(@, w.handle, w.off, read.data)])

\* sftp.go:75-81, file_upload.go:46-49: Chmod of the remote path, one
\* request, and the return of the bytes copied; sftp.go:169-175: UploadDir
\* goes on with the next path after a file is uploaded.
UploadChmod(p) ==
    LET w == loc[p].work
        input == loc[p].input
        chmod == Chmod(fs.remote, HomeDir, w.remote, w.mode)
    IN
    /\ pc[p] = "up_chmod"
    /\ IF ~Up(p) \/ chmod.err # "" THEN TransferFailed(p, fs)
       ELSE IF input.tool = "ssh_upload_file"
       THEN FileReturn(p, ToolDone(p, [Bytes |-> w.off]),
                       [fs EXCEPT !.remote = chmod.files])
       ELSE FileStep(p, "ud_walk", input,
                     [w EXCEPT !.files = @ + 1, !.bytes = @ + w.off,
                               !.handle = <<>>],
                     [fs EXCEPT !.remote = chmod.files])

\* sftp.go:85-89: Open of the remote file, one request.
DownloadOpen(p) ==
    LET w == loc[p].work
        opened == Open(fs.remote, HomeDir, w.remote)
    IN
    /\ pc[p] = "dn_open"
    /\ IF ~Up(p) \/ opened.err # "" THEN TransferFailed(p, fs)
       ELSE FileStep(p, "dn_stat", loc[p].input,
                     [w EXCEPT !.handle = opened.path], fs)

\* sftp.go:92-95: Stat of the remote path, one request.
DownloadStat(p) ==
    LET w == loc[p].work
        st == Stat(fs.remote, HomeDir, w.remote)
    IN
    /\ pc[p] = "dn_stat"
    /\ IF ~Up(p) \/ st.err # "" THEN TransferFailed(p, fs)
       ELSE FileStep(p, "dn_create", loc[p].input,
                     [w EXCEPT !.mode = Perm(st.node.mode)], fs)

\* sftp.go:97-100: os.Create of the local path as it was given.
DownloadCreate(p) ==
    LET w == loc[p].work
        created == Create(fs.local, WorkDir, w.local)
    IN
    /\ pc[p] = "dn_create"
    /\ IF created.err # "" THEN TransferFailed(p, fs)
       ELSE FileStep(p, "dn_size", loc[p].input,
                     [w EXCEPT !.dst = created.path, !.off = 0],
                     [fs EXCEPT !.local = created.files])

\* sftp.go:102: io.Copy hands the copy to WriteTo of the remote file, which
\* first asks for the size with Stat of the path the file was opened
\* with, one request; the copy fails when it fails.
DownloadCopyStat(p) ==
    LET w == loc[p].work
        st == Stat(fs.remote, HomeDir, w.remote)
    IN
    /\ pc[p] = "dn_size"
    /\ IF ~Up(p) \/ st.err # "" THEN TransferFailed(p, fs)
       ELSE FileStep(p, "dn_copy", loc[p].input, w, fs)

\* sftp.go:102-105: the copy asks for the next bytes of the open remote
\* file, one request, and writes them to the local file; what was written
\* before the copy fails stays.
DownloadCopy(p) ==
    LET w == loc[p].work
        read == ReadAt(fs.remote, w.handle, w.off)
    IN
    /\ pc[p] = "dn_copy"
    /\ IF ~Up(p) \/ read.err # "" THEN TransferFailed(p, fs)
       ELSE IF read.eof THEN FileStep(p, "dn_chmod", loc[p].input, w, fs)
       ELSE FileStep(p, "dn_copy", loc[p].input,
                     [w EXCEPT !.off = @ + Len(read.data)],
                     [fs EXCEPT !.local = WriteAt(@, w.dst, w.off, read.data)])

\* sftp.go:108-112, file_download.go:46-49: os.Chmod of the local path and
\* the return of the bytes copied; sftp.go:208-213: DownloadDir goes on
\* with the next entry after a file is downloaded.
DownloadChmod(p) ==
    LET w == loc[p].work
        input == loc[p].input
        chmod == Chmod(fs.local, WorkDir, w.local, w.mode)
    IN
    /\ pc[p] = "dn_chmod"
    /\ IF chmod.err # "" THEN TransferFailed(p, fs)
       ELSE IF input.tool = "ssh_download_file"
       THEN FileReturn(p, ToolDone(p, [Bytes |-> w.off]),
                       [fs EXCEPT !.local = chmod.files])
       ELSE FileStep(p, "dd_step", input,
                     [w EXCEPT !.files = @ + 1, !.bytes = @ + w.off,
                               !.handle = <<>>],
                     [fs EXCEPT !.local = chmod.files])

\* sftp.go:142-180 and filepath.Walk: the next path of the walk, the root
\* first and the entries of a directory in the order of their names after
\* it: its Lstat; for a directory the remote path to make, for another file
\* the upload with the permission bits Lstat gave; the counts are returned
\* when no path is left (unnamed/part_006:41-50).
UploadDir(p) ==
    LET w == loc[p].work
        path == Head(w.stack)
        st == Lstat(fs.local, WorkDir, path)
        rel == Rel(w.ldir, path)
        remotePath == Join(w.rdir, rel.path)
        entries == SortedNames(Names(fs.local, st.path))
    IN
    /\ pc[p] = "ud_walk"
    /\ IF w.stack = <<>>
       THEN FileReturn(p, ToolDone(p, [Files |-> w.files, Bytes |-> w.bytes]), fs)
       ELSE IF st.err # "" \/ rel.err # "" THEN TransferFailed(p, fs)
       ELSE IF st.node.kind = "dir"
       THEN FileStep(p, "mk_stat", loc[p].input,
                     [w EXCEPT !.stack = [i \in 1..Len(entries) |->
                                             Join(path, entries[i])]
                                         \o Tail(w.stack),
                               !.remote = remotePath,
                               !.mode = Perm(st.node.mode),
                               !.mk = <<remotePath>>],
                     fs)
       ELSE FileStep(p, "up_open", loc[p].input,
                     [w EXCEPT !.stack = Tail(w.stack),
                               !.local = path,
                               !.remote = remotePath,
                               !.perms = <<Perm(st.node.mode)>>],
                     fs)

\* A call of sftp MkdirAll returns nil: the call that made it goes on with
\* its Mkdir; after the outermost call, UploadDir goes on with Chmod.
MkdirAllReturn(p, files) ==
    LET w == loc[p].work IN
    FileStep(p, IF Len(w.mk) = 1 THEN "ud_chmod" ELSE "mk_mkdir", loc[p].input,
             [w EXCEPT !.mk = Tail(w.mk)], files)

\* sftp MkdirAll (sftp.go:158), its Stat, one request: nothing to do for a
\* directory, an error for another file; else MkdirAll is called for the
\* parent, if there is one, before Mkdir.
MkdirAllStat(p) ==
    LET w == loc[p].work
        path == Head(w.mk)
        st == Stat(fs.remote, HomeDir, path)
    IN
    /\ pc[p] = "mk_stat"
    /\ IF Up(p) /\ st.err = ""
       THEN IF st.node.kind = "dir" THEN MkdirAllReturn(p, fs)
            ELSE TransferFailed(p, fs)
       ELSE IF MkdirAllParent(path) # <<>>
       THEN FileStep(p, "mk_stat", loc[p].input,
                     [w EXCEPT !.mk = <<MkdirAllParent(path)>> \o @], fs)
       ELSE FileStep(p, "mk_mkdir", loc[p].input, w, fs)

\* sftp MkdirAll, its Mkdir, one request.
MkdirAllMkdir(p) ==
    LET w == loc[p].work
        made == Mkdir(fs.remote, HomeDir, Head(w.mk), 511)
    IN
    /\ pc[p] = "mk_mkdir"
    /\ IF Up(p) /\ made.err = ""
       THEN MkdirAllReturn(p, [fs EXCEPT !.remote = made.files])
       ELSE FileStep(p, "mk_check", loc[p].input, w, fs)

\* sftp MkdirAll, its Lstat after Mkdir failed, one request: the error of
\* Mkdir counts unless the directory is there.
MkdirAllCheck(p) ==
    LET w == loc[p].work
        st == Lstat(fs.remote, HomeDir, Head(w.mk))
    IN
    /\ pc[p] = "mk_check"
    /\ IF Up(p) /\ st.err = "" /\ st.node.kind = "dir"
       THEN MkdirAllReturn(p, fs)
       ELSE TransferFailed(p, fs)

\* sftp.go:161-165: Chmod of the remote directory, one request; its error
\* is ignored.
UploadDirChmod(p) ==
    LET w == loc[p].work IN
    /\ pc[p] = "ud_chmod"
    /\ FileStep(p, "ud_walk", loc[p].input, w,
                IF Up(p)
                THEN [fs EXCEPT !.remote =
                         Chmod(fs.remote, HomeDir, w.remote, w.mode).files]
                ELSE fs)

\* An entry of the remote walk: its path, what Lstat or ReadDir told about
\* it, and the error of the request.
Entry(path, node, err) == [path |-> path, node |-> node, err |-> err]

\* sftp.go:277 (sftp Walk): Lstat of the root, one request; the walk starts
\* with the root, or with the error.
DownloadDirRoot(p) ==
    LET w == loc[p].work
        st == Lstat(fs.remote, HomeDir, w.rdir)
    IN
    /\ pc[p] = "dd_root"
    /\ FileStep(p, "dd_step", loc[p].input,
                [w EXCEPT !.stack =
                    << IF Up(p) /\ st.err = "" THEN Entry(w.rdir, st.node, "")
                       ELSE Entry(w.rdir, NoFile, "lstat") >>,
                          !.descend = FALSE],
                fs)

\* The entries that ReadDir of the directory opened with path has listed.
Listed(path, entries) ==
    [i \in DOMAIN entries |->
        Entry(Join(path, entries[i].name), entries[i].node, "")]

\* sftp.go:278 (Walker.Step), its end: the next entry of the stack is
\* taken; the counts are returned when none is left
\* (unnamed/part_004:41-50).
WalkerNext(p, stack) ==
    LET w == loc[p].work IN
    IF stack = <<>>
    THEN FileReturn(p, ToolDone(p, [Files |-> w.files, Bytes |-> w.bytes]), fs)
    ELSE FileStep(p, "dd_fn", loc[p].input,
                  [w EXCEPT !.cur = Head(stack), !.stack = Tail(stack),
                            !.descend = TRUE, !.handle = <<>>],
                  fs)

\* sftp.go:278 (Walker.Step): when the entry visited last is a directory,
\* ReadDir of its path starts and opens the directory, one request; when
\* that fails the entry comes back with the error.  Else the next entry
\* is taken.
DownloadDirStep(p) ==
    LET w == loc[p].work
        opened == Open(fs.remote, HomeDir, w.cur.path)
        reads == w.descend /\ w.cur.err = "" /\ w.cur.node.kind = "dir"
        listed == Up(p) /\ opened.err = ""
                     /\ Lookup(fs.remote, opened.path).kind = "dir"
    IN
    /\ pc[p] = "dd_step"
    /\ IF ~reads THEN WalkerNext(p, w.stack)
       ELSE IF ~listed
       THEN WalkerNext(p, <<[w.cur EXCEPT !.err = "readdir"]>> \o w.stack)
       ELSE FileStep(p, "dd_readdir", loc[p].input,
                     [w EXCEPT !.handle = opened.path, !.opened = w.cur.path,
                               !.entries = <<>>, !.begun = FALSE,
                               !.rderr = FALSE],
                     fs)

\* sftp.go:278 (Walker.Step): ReadDir closes the directory, one request
\* whose error it drops; the entries it listed are put before the stack in
\* the order the server listed them, or the directory comes back with the
\* error of ReadDir; the next entry is taken.
DownloadDirListed(p) ==
    LET w == loc[p].work IN
    /\ pc[p] = "dd_close"
    /\ WalkerNext(p, IF w.rderr
                     THEN <<[w.cur EXCEPT !.err = "readdir"]>> \o w.stack
                     ELSE Listed(w.cur.path, w.entries) \o w.stack)

\* sftp.go:279-284 and 186-208: the error of the walk is returned; else the
\* local path of the entry is made with os.MkdirAll when it is a directory,
\* and its parent is made before DownloadFile when it is not.
DownloadDir(p) ==
    LET w == loc[p].work
        rel == Rel(w.rdir, w.cur.path)
        localPath == Join(w.ldir, rel.path)
        isDir == w.cur.node.kind = "dir"
        made == IF isDir
                THEN MkdirAll(fs.local, WorkDir, localPath, Perm(w.cur.node.mode))
                ELSE MkdirAll(fs.local, WorkDir, Dir(localPath), DirMode)
    IN
    /\ pc[p] = "dd_fn"
    /\ IF w.cur.err # "" \/ rel.err # "" THEN TransferFailed(p, fs)
       ELSE IF made.err # ""
       THEN TransferFailed(p, [fs EXCEPT !.local = made.files])
       ELSE IF isDir
       THEN FileStep(p, "dd_step", loc[p].input, w,
                     [fs EXCEPT !.local = made.files])
       ELSE FileStep(p, "dn_open", loc[p].input,
                     [w EXCEPT !.remote = w.cur.path, !.local = localPath],
                     [fs EXCEPT !.local = made.files])

\* The steps of the bodies of the four transfer tools.
TransferSteps(p) ==
    \/ UploadOpen(p) \/ UploadCreate(p) \/ UploadCopy(p) \/ UploadChmod(p)
    \/ DownloadOpen(p) \/ DownloadStat(p) \/ DownloadCreate(p)
    \/ DownloadCopyStat(p) \/ DownloadCopy(p) \/ DownloadChmod(p)
    \/ UploadDir(p) \/ MkdirAllStat(p) \/ MkdirAllMkdir(p) \/ MkdirAllCheck(p)
    \/ UploadDirChmod(p)
    \/ DownloadDirRoot(p) \/ DownloadDirStep(p) \/ ReadDir(p)
    \/ DownloadDirListed(p) \/ DownloadDir(p)

\* The calls of the transfer tools: one of the two paths is the plain "a",
\* the other is any path.
TransferInputs ==
    {[tool |-> t, SessionID |-> TheID, LocalPath |-> pr[1], RemotePath |-> pr[2]] :
        t \in TransferTools,
        pr \in (Paths \X {<<"a">>}) \cup ({<<"a">>} \X Paths)}

\* The calls that the validation refuses whatever the files are: the local
\* path has a null byte or "..", or ValidatePath refuses the remote path.
BadInputs ==
    {input \in TransferInputs :
        \/ Contains(input.LocalPath, <<CharOf(0)>>)
        \/ Contains(input.LocalPath, <<".", ".">>)
        \/ ValidatePath(input.RemotePath) # ""}

\* The calls whose local path leads over the link "l", to the root, or
\* through the file "a".
LinkInputs ==
    {input \in TransferInputs :
        input.LocalPath \in {<<"l">>, <<"l", "/">>, <<"l", "/", "l">>, <<"/">>,
                             <<"/", "l">>, <<"a", "/", "a">>}}

\* The calls that the validation accepts and that are made all the same:
\* the local file, the local file with a "/" after it, and the base
\* directory by way of a link, to the remote "a"; and the remote "a" to the
\* local "a".
ProbeInputs ==
    {[tool |-> "ssh_upload_file", SessionID |-> TheID, LocalPath |-> l,
      RemotePath |-> <<"a">>] :
        l \in {<<"a">>, <<"a", "/">>, <<"l", "/", "a">>}}
      \cup {[tool |-> "ssh_download_file", SessionID |-> TheID,
             LocalPath |-> <<"a">>, RemotePath |-> <<"a">>]}

\* This machine with the file "/a/a" and with "/a/l", a link to the root;
\* the host with the home directory alone.
RejectFiles ==
    [local |-> Stored(Stored(NoFS.local, Child(WorkDir, <<"a">>),
                             RegularFile(<<"x", "y">>, 2541)),
                      Child(WorkDir, <<"l">>), Symlink(<<"/">>)),
     remote |-> NoFS.remote]

\* For every reason that ValidatePath has to refuse a path of Paths, one
\* path that it refuses for that reason.
BadPaths ==
    {CHOOSE path \in Paths : ValidatePath(path) = reason :
        reason \in {ValidatePath(path) : path \in Paths} \ {""}}

\* The calls of the tools that take remote paths alone, with a path that
\* ValidatePath refuses: ssh_edit_file, ssh_rename (the old path or the
\* new), ssh_list_directory and ssh_file_stat.
BadRemoteInputs ==
    {[tool |-> "ssh_edit_file", SessionID |-> TheID, RemotePath |-> path,
      Mode |-> "replace", Content |-> <<"x">>, OldString |-> <<>>,
      NewString |-> <<>>, Backup |-> <<>>, before |-> NoFile] :
        path \in BadPaths}
      \cup {[tool |-> "ssh_rename", SessionID |-> TheID,
             OldPath |-> pr[1], NewPath |-> pr[2]] :
                pr \in (BadPaths \X {<<"b">>}) \cup ({<<"a">>} \X BadPaths)}
      \cup {[tool |-> "ssh_list_directory", SessionID |-> TheID,
             Path |-> path] : path \in BadPaths}
      \cup {[tool |-> "ssh_file_stat", SessionID |-> TheID,
             RemotePath |-> path, FollowSymlinks |-> <<>>] :
                path \in BadPaths}

\* The calls of these tools that the validation accepts and that are made
\* all the same: the remote "a" is renamed to "b", the home directory is
\* listed, and "a" is looked at.
RemoteProbeInputs ==
    {[tool |-> "ssh_rename", SessionID |-> TheID,
      OldPath |-> <<"a">>, NewPath |-> <<"b">>],
     [tool |-> "ssh_list_directory", SessionID |-> TheID, Path |-> <<".">>]}
      \cup {[tool |-> "ssh_file_stat", SessionID |-> TheID,
             RemotePath |-> <<"a">>, FollowSymlinks |-> follow] :
                follow \in {<<>>, <<FALSE>>}}

\* The local base directory unset or "/a"; the file operations not rate
\* limited or, under the base directory "/a", rate limited.
InitReject ==
    \E base \in {<<>>, WorkDir}, limited \in BOOLEAN :
        /\ limited => base = WorkDir
        /\ InitAll(NoFilter, AdmitRate,
                   [DefaultConfig EXCEPT !.LocalBaseDir = base,
                                         !.RateLimitFileOps = limited],
                   RejectFiles)

\* A call of BadInputs, of BadRemoteInputs or of the probes, or one of
\* LinkInputs that the validation refuses as the files are.
RejectCall(p) ==
    \/ \E input \in BadInputs \cup ProbeInputs : FileCall(p, input)
    \/ \E input \in BadRemoteInputs \cup RemoteProbeInputs : FileCall(p, input)
    \/ \E input \in LinkInputs :
          ValidationError(input).err # "" /\ FileCall(p, input)

\* One goroutine that connects to one identity and calls the tools that
\* take paths with every path the validation refuses; the link stays up.
NextReject ==
    \/ \E params \in ParamsOf(TheID) \cap ValidParams : ConnectStart("c1", params)
    \/ ConnectWait1("c1") \/ ConnectProbe1("c1") \/ ConnectBump1("c1")
    \/ ConnectAuth("c1") \/ ConnectLock("c1")
    \/ ConnectDial("c1") \/ ConnectReady("c1")
    \/ RejectCall("c1")
    \/ HandleFileCall("c1")
    \/ GetWait("c1") \/ GetProbe("c1") \/ GetBump("c1")
    \/ FileAllow("c1")
    \/ GetLimiterFound("c1") \/ GetLimiterMake("c1") \/ LimiterAllow("c1")
    \/ FileAdmit("c1") \/ NewSFTPClient("c1")
    \/ \E served \in BOOLEAN : RequestSubsystem("c1", served)
    \/ NewClientPipe("c1") \/ FileExpand("c1")
    \/ UploadOpen("c1") \/ UploadCreate("c1") \/ UploadCopy("c1")
    \/ UploadChmod("c1")
    \/ DownloadOpen("c1") \/ DownloadStat("c1") \/ DownloadCreate("c1")
    \/ DownloadCopyStat("c1") \/ DownloadCopy("c1") \/ DownloadChmod("c1")
    \/ RenameExpand("c1") \/ HandleRename("c1")
    \/ HandleListDirectory("c1") \/ ReadDir("c1") \/ ListDir("c1")
    \/ HandleFileStat("c1")

SpecReject == InitReject /\ [][NextReject]_vars

\* The calls that move the local "a" to the remote "a", the remote "a" to
\* the local "a" or ".a", the local directory "d" to the remote "d" and the
\* remote "d" to the local "e".
RoundTripInputs ==
    {[tool |-> t, SessionID |-> TheID, LocalPath |-> l, RemotePath |-> <<"a">>] :
        t \in {"ssh_upload_file", "ssh_download_file"},
        l \in {<<"a">>, <<".", "a">>}}
      \cup {[tool |-> "ssh_upload_directory", SessionID |-> TheID,
             LocalPath |-> <<"d">>, RemotePath |-> <<"d">>],
            [tool |-> "ssh_download_directory", SessionID |-> TheID,
             LocalPath |-> <<"e">>, RemotePath |-> <<"d">>]}

\* This machine with the file "/a/a" of mode m and the directory "/a/d"
\* that holds the file "a"; the host with its home directory and, when
\* there is true, the file "/a/a".
TransferFiles(m, there) ==
    [local |-> Stored(Stored(Stored(NoFS.local, Child(WorkDir, <<"a">>),
                                    RegularFile(<<"x", "y">>, m)),
                             Child(WorkDir, <<"d">>), Directory(448)),
                      Child(Child(WorkDir, <<"d">>), <<"a">>),
                      RegularFile(<<"x">>, 384)),
     remote |-> IF there
                THEN Stored(NoFS.remote, Child(HomeDir, <<"a">>),
                            RegularFile(<<"y">>, DefaultMode))
                ELSE NoFS.remote]

InitTransfer ==
    \E m \in Modes, there \in BOOLEAN, limited \in BOOLEAN :
        InitAll(NoFilter, AdmitRate,
                [DefaultConfig EXCEPT !.RateLimitFileOps = limited],
                TransferFiles(m, there))

\* One goroutine that connects to one identity and moves files and
\* directories to and from it, while links are lost.
NextTransfer ==
    \/ \E params \in ParamsOf(TheID) \cap ValidParams : ConnectStart("c1", params)
    \/ ConnectWait1("c1") \/ ConnectProbe1("c1") \/ ConnectBump1("c1")
    \/ ConnectRmDead("c1") \/ ConnectCloseDead("c1")
    \/ ConnectAuth("c1") \/ ConnectLock("c1")
    \/ ConnectDial("c1") \/ ConnectReady("c1")
    \/ \E input \in RoundTripInputs : FileCall("c1", input)
    \/ HandleFileCall("c1")
    \/ GetSteps("c1")
    \/ FileAllow("c1")
    \/ GetLimiterFound("c1") \/ GetLimiterMake("c1") \/ LimiterAllow("c1")
    \/ FileAdmit("c1") \/ NewSFTPClient("c1")
    \/ \E served \in BOOLEAN : RequestSubsystem("c1", served)
    \/ NewClientPipe("c1") \/ FileExpand("c1")
    \/ UploadOpen("c1") \/ UploadCreate("c1") \/ UploadCopy("c1")
    \/ UploadChmod("c1")
    \/ DownloadOpen("c1") \/ DownloadStat("c1") \/ DownloadCreate("c1")
    \/ DownloadCopyStat("c1") \/ DownloadCopy("c1") \/ DownloadChmod("c1")
    \/ UploadDir("c1") \/ MkdirAllStat("c1") \/ MkdirAllMkdir("c1")
    \/ MkdirAllCheck("c1") \/ UploadDirChmod("c1")
    \/ DownloadDirRoot("c1") \/ DownloadDirStep("c1") \/ ReadDir("c1")
    \/ DownloadDirListed("c1") \/ DownloadDir("c1")
    \/ \E c \in ClientIdx : LinkDown(c)

SpecTransfer == InitTransfer /\ [][NextTransfer]_vars

\* The remote paths that a call names, and the errors with which the
\* handlers return a path that the validation rejects.
NamedRemotePaths(input) ==
    CASE input.tool = "ssh_rename" -> {input.OldPath, input.NewPath}
      [] input.tool = "ssh_list_directory" -> {input.Path}
      [] OTHER -> {input.RemotePath}
PathErrors ==
    {"invalid local path", "invalid remote path", "invalid old path",
     "invalid new path", "invalid path"}

\* C21: a tool call whose local or remote path the validation rejects
\* returns the validation error from the handler's first step, before any
\* session is resolved: the pool map, the sessions (LastUsed included), the
\* clients, the rate limiter's buckets, the host's channels and the remote
\* and local files are as they were, and so is everything the validation
\* reads, so that the same call made again is rejected for the same
\* reason.  A call that goes on to resolve its session has paths the
\* validation accepts.
C21_RejectedPathChangesNothing ==
    [][\A p \in Callers :
        pc[p] = "f_check" /\ pc'[p] # "f_check"
           => LET input == loc[p].input
                  bad == \/ /\ input.tool \in TransferTools
                            /\ \/ Contains(input.LocalPath, <<CharOf(0)>>)
                               \/ Contains(input.LocalPath, <<".", ".">>)
                               \/ ValidateLocalPath(input.LocalPath,
                                                    sshConfig.LocalBaseDir) # ""
                         \/ \E path \in NamedRemotePaths(input) :
                               ValidatePath(path) # ""
              IN IF bad
                 THEN /\ pc'[p] = "idle"
                      /\ ret'.by = p /\ ret'.op = input.tool
                      /\ ret'.err \in PathErrors
                      /\ ret'.conn = NoSess
                      /\ UNCHANGED <<conns, sess, clients, mu, now, rl,
                                     remote, fs, sshConfig>>
                 ELSE ret'.err \notin PathErrors
      ]_vars

\* A download has been rejected for the link in its local path, which
\* leads out of the base directory, while the pool holds the connected
\* session it names, the file operations are not rate limited, and an
\* upload over an SFTP channel of that session has made the remote file.
C21_RejectedWithLiveSession ==
    /\ ret.op = "ssh_download_file" /\ ret.err = "invalid local path"
    /\ ret.cause = "outside base directory"
    /\ ValidateLocalPath(<<"l">>, sshConfig.LocalBaseDir) = "outside base directory"
    /\ conns[ret.id] # NoSess /\ sess[conns[ret.id]].Connected
    /\ ~sshConfig.RateLimitFileOps
    /\ remote.channels > 0
    /\ Lookup(fs.remote, Child(HomeDir, <<"a">>)).exists

\* C25: a successful ssh_upload_file(L, R) leaves in R the bytes of L with
\* the perms the call gave or, when it gave none, the permission bits of L
\* when Stat of L succeeded and 0644 when it failed; a successful
\* ssh_download_file(R, L2) leaves in L2 the bytes of R with the permission
\* bits of R.
C25_TransferKeepsBytesAndPerms ==
    [][/\ (ret'.op = "ssh_upload_file" /\ ret'.err = "")
            => LET l == LocalNode(fs.local, ret'.input.LocalPath)
                   r == RemoteNode(fs'.remote, ret'.input.RemotePath)
               IN /\ l.kind = "file" /\ r.kind = "file"
                  /\ r.data = l.data
                  /\ r.mode = (LET w == loc[ret'.by].work IN
                                IF w.perms # <<>> THEN w.perms[1]
                                ELSE IF w.statOK THEN Perm(l.mode)
                                ELSE DefaultMode)
                  /\ ret'.out.Bytes = Len(l.data)
                  /\ fs'.local = fs.local
       /\ (ret'.op = "ssh_download_file" /\ ret'.err = "")
            => LET r == RemoteNode(fs.remote, ret'.input.RemotePath)
                   l == LocalNode(fs'.local, ret'.input.LocalPath)
               IN /\ r.kind = "file" /\ l.kind = "file"
                  /\ l.data = r.data
                  /\ l.mode = Perm(r.mode)
                  /\ ret'.out.Bytes = Len(r.data)
                  /\ fs'.remote = fs.remote
      ]_vars

\* A download has returned a copy of the local file "/a/a" (setuid, 0755)
\* that went through the remote "/a/a": same bytes, the permission bits
\* without the setuid bit.
C25_RoundTrip ==
    LET l == Lookup(fs.local, Child(WorkDir, <<"a">>))
        r == Lookup(fs.remote, Child(HomeDir, <<"a">>))
        l2 == LocalNode(fs.local, ret.input.LocalPath)
    IN /\ ret.op = "ssh_download_file" /\ ret.err = ""
       /\ ret.input.LocalPath = <<".", "a">>
       /\ ret.input.RemotePath = Child(HomeDir, <<"a">>)
       /\ l.mode = 2541 /\ r.mode = 493
       /\ l2.data = l.data /\ r.data = l.data /\ l.data = <<"x", "y">>
       /\ l2.mode = r.mode

\* ----------------------------------------------------------- ssh_edit_file

MaxDataLen == 2
Data == StringsOver({"x", "y"}, 0, MaxDataLen)

\* remotePath + ".bak"
BackupPath(remotePath) == remotePath \o <<".", "b", "a", "k">>

\* strings.Index(s, sub): the offset of the first occurrence of sub in s.
Index(s, sub) ==
    CHOOSE i \in 0..(Len(s) - Len(sub)) :
        /\ SubSeq(s, i + 1, i + Len(sub)) = sub
        /\ \A j \in 0..(i - 1) : SubSeq(s, j + 1, j + Len(sub)) # sub

\* strings.LastIndex(s, sub)
LastIndex(s, sub) ==
    CHOOSE i \in 0..(Len(s) - Len(sub)) :
        /\ SubSeq(s, i + 1, i + Len(sub)) = sub
        /\ \A j \in (i + 1)..(Len(s) - Len(sub)) :
              SubSeq(s, j + 1, j + Len(sub)) # sub

\* The patch that replaces the last occurrence.
ReplaceLast(s, old, new) ==
    IF ~Contains(s, old) THEN s
    ELSE SubSeq(s, 1, LastIndex(s, old)) \o new
            \o SubSeq(s, LastIndex(s, old) + Len(old) + 1, Len(s))

\* strings.Replace(s, old, new, 1)
ReplaceFirst(s, old, new) ==
    IF ~Contains(s, old) THEN s
    ELSE SubSeq(s, 1, Index(s, old)) \o new
            \o SubSeq(s, Index(s, old) + Len(old) + 1, Len(s))

\* config.go:324-333: the mode and the backup flag with their defaults.
EditMode(input) == IF input.Mode = "" THEN "replace" ELSE input.Mode
DoBackup(input) == IF input.Backup = <<>> THEN TRUE ELSE input.Backup[1]

\* ReadFile starts for the patch ("patch") or for createBackup ("backup").
StartRead(p, input, w, then) ==
    FileStep(p, "rd_open", input,
             [w EXCEPT !.then = then, !.data = <<>>, !.off = 0,
                       !.handle = <<>>], fs)

\* defaultPerms starts for the backup ("bak") or for the file ("target").
StartPerms(p, input, w, then, files) ==
    FileStep(p, "pm_stat", input,
             [w EXCEPT !.then = then, !.handle = <<>>], files)

\* config.go:324-342, 345-350 and 366-369: the dispatch on the mode:
\* editReplace starts with createBackup or, without backup, with
\* defaultPerms; editPatch refuses an empty old_string and starts with
\* ReadFile.  input.before keeps the file the path led to at this time.
EditRun(p) ==
    LET input == loc[p].input
        w == loc[p].work
        found == [input EXCEPT !.before = RemoteNode(fs.remote, input.RemotePath)]
    IN
    /\ pc[p] = "ed_run"
    /\ CASE EditMode(input) = "replace" /\ DoBackup(input)
              -> StartRead(p, found, [w EXCEPT !.newContent = input.Content],
                           "backup")
         [] EditMode(input) = "replace" /\ ~DoBackup(input)
              -> StartPerms(p, found, [w EXCEPT !.newContent = input.Content],
                            "target", fs)
         [] EditMode(input) = "patch" /\ input.OldString = <<>>
              -> FileReturn(p, ToolError(p, "old_string is required"), fs)
         [] EditMode(input) = "patch" /\ input.OldString # <<>>
              -> StartRead(p, found, w, "patch")
         [] OTHER
              -> FileReturn(p, ToolError(p, "unknown edit mode"), fs)

\* config.go:371-374 and 403-407: ReadFile has failed: editPatch returns
\* the error; createBackup takes every error for "the file does not exist
\* yet" and returns nil, and the caller goes on with defaultPerms.
ReadFailed(p) ==
    IF loc[p].work.then = "patch"
    THEN FileReturn(p, ToolError(p, "read file for patch"), fs)
    ELSE StartPerms(p, loc[p].input, loc[p].work, "target", fs)

\* config.go:376-387 and 408-410: ReadFile has returned data: editPatch
\* looks for old_string, replaces its first occurrence and goes on with
\* createBackup or defaultPerms; createBackup goes on with defaultPerms and
\* the data as the content of the backup.
ReadReturned(p, data) ==
    LET input == loc[p].input
        w == loc[p].work
    IN IF w.then = "backup"
       THEN StartPerms(p, input, [w EXCEPT !.data = data], "bak", fs)
       ELSE IF ~Contains(data, input.OldString)
       THEN FileReturn(p, ToolError(p, "old_string not found"), fs)
       ELSE IF DoBackup(input)
       THEN StartRead(p, input,
                      [w EXCEPT !.newContent =
                          ReplaceFirst(data, input.OldString, input.NewString)],
                      "backup")
       ELSE StartPerms(p, input,
                       [w EXCEPT !.newContent =
                           ReplaceFirst(data, input.OldString, input.NewString)],
                       "target", fs)

\* sftp.go:226-230: ReadFile, Open of the remote file, one request.
ReadOpen(p) ==
    LET w == loc[p].work
        opened == Open(fs.remote, HomeDir, loc[p].input.RemotePath)
    IN
    /\ pc[p] = "rd_open"
    /\ IF ~Up(p) \/ opened.err # "" THEN ReadFailed(p)
       ELSE FileStep(p, IF sshConfig.MaxFileSize > 0 THEN "rd_stat" ELSE "rd_read",
                     loc[p].input, [w EXCEPT !.handle = opened.path], fs)

\* sftp.go:232-240: ReadFile with a limit, Stat of the remote path, one
\* request, and the check of the size.
ReadStat(p) ==
    LET st == Stat(fs.remote, HomeDir, loc[p].input.RemotePath) IN
    /\ pc[p] = "rd_stat"
    /\ IF ~Up(p) \/ st.err # "" \/ Len(st.node.data) > sshConfig.MaxFileSize
       THEN ReadFailed(p)
       ELSE FileStep(p, "rd_read", loc[p].input, loc[p].work, fs)

\* sftp.go:241-252: io.ReadAll asks for the next bytes of the open remote
\* file, one request, until the end of the file or, with a limit, until
\* the limit and one byte are read.
ReadData(p) ==
    LET w == loc[p].work
        limit == sshConfig.MaxFileSize
        read == ReadAt(fs.remote, w.handle, w.off)
        room == limit + 1 - Len(w.data)
        chunk == IF limit > 0 /\ Len(read.data) > room
                 THEN SubSeq(read.data, 1, room) ELSE read.data
        data == w.data \o chunk
    IN
    /\ pc[p] = "rd_read"
    /\ IF ~Up(p) \/ read.err # "" THEN ReadFailed(p)
       ELSE IF read.eof \/ (limit > 0 /\ Len(data) = limit + 1)
       THEN ReadReturned(p, data)
       ELSE FileStep(p, "rd_read", loc[p].input,
                     [w EXCEPT !.data = data, !.off = @ + Len(chunk)], fs)

\* config.go:414-419, 352, 389 and 408: defaultPerms, Stat of the file, one
\* request: the permission bits Stat reports, 0644 when it fails.
\* WriteFile starts after it for <path>.bak with the data read or for the
\* file with the new content.
defaultPerms(p) ==
    LET w == loc[p].work
        input == loc[p].input
        st == Stat(fs.remote, HomeDir, input.RemotePath)
    IN
    /\ pc[p] = "pm_stat"
    /\ FileStep(p, "wr_create", input,
                [w EXCEPT !.mode = IF Up(p) /\ st.err = ""
                                   THEN Perm(st.node.mode) ELSE DefaultMode,
                          !.remote = IF w.then = "bak"
                                     THEN BackupPath(input.RemotePath)
                                     ELSE input.RemotePath,
                          !.data = IF w.then = "bak" THEN w.data
                                   ELSE w.newContent],
                fs)

\* config.go:347-349, 384-386, 356-358 and 392-394: WriteFile has failed.
WriteFailed(p) ==
    FileReturn(p,
               ToolError(p, IF loc[p].work.then = "bak" THEN "create backup"
                            ELSE IF EditMode(loc[p].input) = "patch"
                            THEN "write patched file"
                            ELSE "write file"),
               fs)

\* sftp.go:257-261: WriteFile, Create of the remote file, one request.
WriteCreate(p) ==
    LET w == loc[p].work
        created == Create(fs.remote, HomeDir, w.remote)
    IN
    /\ pc[p] = "wr_create"
    /\ IF ~Up(p) \/ created.err # "" THEN WriteFailed(p)
       ELSE FileStep(p, "wr_write", loc[p].input,
                     [w EXCEPT !.handle = created.path, !.off = 0],
                     [fs EXCEPT !.remote = created.files])

\* sftp.go:263-266: Write sends the next bytes of the data to the open
\* file, one request; what was written before a request fails stays.
WriteData(p) ==
    LET w == loc[p].work
        chunk == Packet(w.data, w.off)
    IN
    /\ pc[p] = "wr_write"
    /\ IF ~Up(p) THEN WriteFailed(p)
       ELSE FileStep(p,
                     IF w.off + Len(chunk) >= Len(w.data) THEN "wr_chmod"
                     ELSE "wr_write",
                     loc[p].input, [w EXCEPT !.off = @ + Len(chunk)],
                     [fs EXCEPT !.remote = WriteAt(@, w.handle, w.off, chunk)])

\* sftp.go:268-272: Chmod of the remote path, one request; after the backup
\* is written, the caller goes on with defaultPerms for the file
\* (config.go:352 and 389); after the file is written, the call returns the
\* bytes written (config.go:360-363 and 396-399).
WriteChmod(p) ==
    LET w == loc[p].work
        chmod == Chmod(fs.remote, HomeDir, w.remote, w.mode)
    IN
    /\ pc[p] = "wr_chmod"
    /\ IF ~Up(p) \/ chmod.err # "" THEN WriteFailed(p)
       ELSE IF w.then = "bak"
       THEN StartPerms(p, loc[p].input, w, "target",
                       [fs EXCEPT !.remote = chmod.files])
       ELSE FileReturn(p, ToolDone(p, [Bytes |-> Len(w.data)]),
                       [fs EXCEPT !.remote = chmod.files])

\* The calls of ssh_edit_file on the remote "a": replace with any content,
\* patch of any old string by nothing or by "y", an unknown mode; with the
\* default backup or none; and one call on a path the validation refuses.
EditCalls ==
    ({"replace"} \X Data \X {<<>>} \X {<<>>} \X {<<"a">>})
       \cup {<<"", <<"y">>, <<>>, <<>>, <<"a">>>>}
       \cup ({"patch"} \X {<<>>} \X Data \X {<<>>, <<"y">>} \X {<<"a">>})
       \cup {<<"append", <<>>, <<>>, <<>>, <<"a">>>>}
       \cup {<<"replace", <<>>, <<>>, <<>>, <<".", ".">>>>}

EditInputs ==
    {[tool |-> "ssh_edit_file", SessionID |-> TheID, RemotePath |-> e[5],
      Mode |-> e[1], Content |-> e[2], OldString |-> e[3], NewString |-> e[4],
      Backup |-> b, before |-> NoFile] :
        b \in {<<>>, <<FALSE>>}, e \in EditCalls}

\* The remote file "/a/a" absent or holding MaxDataLen bytes with mode 0600
\* or 04755, max_file_size unset or one byte.
EditFiles ==
    {NoFS} \cup
    {[local |-> NoFS.local,
      remote |-> Stored(NoFS.remote, Child(HomeDir, <<"a">>), RegularFile(d, m))] :
        d \in [1..MaxDataLen -> {"x"}] \cup [1..MaxDataLen -> {"y"}],
        m \in {384, 2541}}

\* The calls of ssh_rename that put the file in the place of its backup
\* and the backup in the place of the file.
RenameInputs ==
    {[tool |-> "ssh_rename", SessionID |-> TheID,
      OldPath |-> pr[1], NewPath |-> pr[2]] :
         pr \in {<<<<"a">>, BackupPath(<<"a">>)>>,
                 <<BackupPath(<<"a">>), <<"a">>>>}}

InitEdit ==
    \E files \in EditFiles, size \in {0, 1}, limited \in BOOLEAN :
        InitAll(NoFilter, AdmitRate,
                [DefaultConfig EXCEPT !.MaxFileSize = size,
                                      !.RateLimitFileOps = limited],
                files)

\* One goroutine that connects to one identity, edits the remote file and
\* renames its backup, while links are lost.
NextEdit ==
    \/ \E params \in ParamsOf(TheID) \cap ValidParams : ConnectStart("c1", params)
    \/ ConnectAuth("c1") \/ ConnectLock("c1")
    \/ ConnectDial("c1") \/ ConnectReady("c1")
    \/ \E input \in EditInputs \cup RenameInputs : FileCall("c1", input)
    \/ HandleFileCall("c1")
    \/ GetWait("c1") \/ GetProbe("c1") \/ GetBump("c1")
    \/ FileAllow("c1")
    \/ GetLimiterFound("c1") \/ GetLimiterMake("c1") \/ LimiterAllow("c1")
    \/ FileAdmit("c1") \/ NewSFTPClient("c1")
    \/ \E served \in BOOLEAN : RequestSubsystem("c1", served)
    \/ NewClientPipe("c1") \/ FileExpand("c1")
    \/ EditRun("c1")
    \/ RenameExpand("c1") \/ HandleRename("c1")
    \/ ReadOpen("c1") \/ ReadStat("c1") \/ ReadData("c1")
    \/ defaultPerms("c1")
    \/ WriteCreate("c1") \/ WriteData("c1") \/ WriteChmod("c1")
    \/ \E c \in ClientIdx : LinkDown(c)

SpecEdit == InitEdit /\ [][NextEdit]_vars

\* C23: a replace call with backup on (the default) that finds the target
\* and returns without error leaves in <path>.bak the content and the
\* permission bits the target had, and in the target the new content with
\* those permission bits.
C23_ReplaceKeepsBackup ==
    [][(/\ ret'.op = "ssh_edit_file" /\ ret'.err = ""
        /\ ret'.input.Mode \in {"", "replace"}
        /\ ret'.input.Backup # <<FALSE>>
        /\ ret'.input.before.exists)
          => LET before == ret'.input.before
                 bak == RemoteNode(fs'.remote, BackupPath(ret'.input.RemotePath))
                 target == RemoteNode(fs'.remote, ret'.input.RemotePath)
             IN /\ bak.exists
                /\ bak.data = before.data
                /\ bak.mode = Perm(before.mode)
                /\ target.data = ret'.input.Content
                /\ target.mode = Perm(before.mode)
      ]_vars

\* The steps of ssh_edit_file in patch mode up to the end of the ReadFile
\* that looks for old_string.
PatchReads(p) ==
    /\ \/ pc[p] = "ed_run"
       \/ pc[p] \in {"rd_open", "rd_stat", "rd_read"} /\ loc[p].work.then = "patch"
    /\ EditMode(loc[p].input) = "patch"

\* C24: a patch call that returns without error found old_string in the
\* file and wrote the file with the first occurrence alone replaced by
\* new_string; a patch call writes no remote file (neither the target nor
\* <path>.bak) before it has read the file, it fails there when old_string
\* is empty or absent from the file, and it goes on to the backup and the
\* write only with an old_string that is not empty and occurs in the file.
C24_PatchReplacesFirst ==
    [][/\ (ret'.op = "ssh_edit_file" /\ ret'.err = ""
              /\ ret'.input.Mode = "patch")
          => LET old == ret'.input.OldString
                 new == ret'.input.NewString
                 was == ret'.input.before.data
                 target == RemoteNode(fs'.remote, ret'.input.RemotePath)
             IN /\ old # <<>>
                /\ \E i \in 0..(Len(was) - Len(old)) :
                      /\ SubSeq(was, i + 1, i + Len(old)) = old
                      /\ ~Contains(SubSeq(was, 1, i + Len(old) - 1), old)
                      /\ target.data = SubSeq(was, 1, i) \o new
                            \o SubSeq(was, i + Len(old) + 1, Len(was))
                /\ ret'.out.Bytes = Len(target.data)
       /\ \A p \in Callers :
            PatchReads(p)
               => /\ fs' = fs
                  /\ pc'[p] = "idle" => ret'.by = p /\ ret'.err # ""
                  /\ (\/ loc[p].input.OldString = <<>>
                      \/ ~Contains(RemoteNode(fs.remote,
                                              loc[p].input.RemotePath).data,
                                   loc[p].input.OldString))
                        => pc'[p] = "idle" \/ PatchReads(p)'
      ]_vars

\* A patch has replaced the first of two occurrences of old_string and
\* left the old content in <path>.bak.
C24_FirstOfTwoPatched ==
    LET was == ret.input.before.data
        target == RemoteNode(fs.remote, ret.input.RemotePath)
        bak == RemoteNode(fs.remote, BackupPath(ret.input.RemotePath))
    IN /\ ret.op = "ssh_edit_file" /\ ret.err = "" /\ ret.input.Mode = "patch"
       /\ was = <<"x", "x">> /\ ret.input.OldString = <<"x">>
       /\ ret.input.NewString = <<"y">>
       /\ target.data = <<"y", "x">>
       /\ bak.exists /\ bak.data = was

\* ------------------------------------------- ssh_execute: admission order

\* C31: ssh_execute resolves the session (which bumps its LastUsed), then
\* asks the rate limiter, then the command filter, then checks the sudo
\* permission: a call is refused only after its session was resolved and
\* its Allow call has returned; the Allow call draws from the bucket it
\* found or made for the session's host and grants exactly when a token is
\* there, and the bucket that the map holds for the host has lost that
\* token (a bucket that Cleanup took out of the map since the call looked
\* it up is no longer the host's); a call the rate limiter refuses does
\* not reach the command filter; a call the command filter or the sudo
\* check refuses was granted by the rate limiter, and the session's
\* LastUsed is the time at which the call resolved it.
C31_AdmissionOrder ==
    [][\A p \in Callers :
        /\ (pc[p] # "x_hold" /\ pc'[p] = "x_hold")
              => sess'[loc'[p].conn].LastUsed = now
        /\ (pc[p] \in {"x_hold", "e_allow"} /\ pc'[p] \in {"x_hold", "e_allow"})
              => sess'[loc[p].conn].LastUsed = sess[loc[p].conn].LastUsed
        /\ (pc[p] = "e_allow" /\ rl.call[p].at = "l_allow"
               /\ rl'.call[p].at = "idle")
              => LET i == rl.call[p].limiter
                     filled == rl.made[i].tokens + (now - rl.made[i].last) * rpm
                     cap == Max(rpm \div 10, 1) * TokenUnit
                     avail == IF filled > cap THEN cap ELSE filled
                 IN /\ rl.made[i].host = sess[loc[p].conn].Host
                    /\ rl'.call[p].ok <=> avail >= TokenUnit
                    /\ (rl.made[i].host \in DOMAIN rl.limiters
                           /\ rl.limiters[rl.made[i].host] = i)
                          => rl'.made[i].tokens =
                                IF rl'.call[p].ok THEN avail - TokenUnit
                                ELSE rl.made[i].tokens
                    /\ verdict' = verdict
        /\ (ret'.op = "ssh_execute" /\ ret'.by = p /\ pc[p] # "idle"
               /\ ret'.err \in {"ratelimit", "cmddenied", "sudodisabled"})
              => LET o == loc[p].conn
                 IN /\ pc[p] = "e_allow" /\ o # NoSess
                    /\ rl.call[p].at = "idle"
                    /\ rl'.made = rl.made
                    /\ sess'[o].LastUsed = sess[o].LastUsed
                    /\ ret'.err = "ratelimit"
                          => ~rl.call[p].ok /\ verdict' = verdict
                    /\ ret'.err \in {"cmddenied", "sudodisabled"}
                          => /\ rl.call[p].ok
                             /\ verdict'.fn = "AllowCommand"
                             /\ verdict'.input = ret'.input.Command
                             /\ verdict'.ok <=> ret'.err = "sudodisabled"
      ]_vars

\* The command filter has refused a call at time 1 on a session connected
\* at time 0: the session's LastUsed is 1 and the host's first token is
\* gone.
C31_DeniedAfterBumpAndToken ==
    /\ ret.op = "ssh_execute" /\ ret.err = "cmddenied"
    /\ now = 1
    /\ conns[ret.id] # NoSess
    /\ sess[conns[ret.id]].ConnectedAt = 0
    /\ sess[conns[ret.id]].LastUsed = 1
    /\ sess[conns[ret.id]].Host \in DOMAIN rl.limiters
    /\ LET b == rl.made[rl.limiters[sess[conns[ret.id]].Host]]
       IN b.calls = 1 /\ b.last = 1
             /\ b.tokens = Max(rpm \div 10, 1) * TokenUnit - TokenUnit

\* ------------------------------------- RateLimiter, one lock section a step

\* The limiter is made with the least limit or with the one of AdmitRate.
InitBucket ==
    \E r \in {Min(RpmValues), AdmitRate} : InitWith(NoFilter, r, DefaultConfig)

\* Two goroutines call Allow for the hosts while the clock runs.
NextBucket ==
    \/ \E p \in Callers :
         \/ \E host \in Hosts : AllowCall(p, host)
         \/ GetLimiterFound(p) \/ GetLimiterMake(p) \/ LimiterAllow(p)
    \/ Tick

SpecBucket == InitBucket /\ [][NextBucket]_vars

\* The same with the cleanup goroutine's Cleanup calls.
NextCleanup ==
    \/ NextBucket
    \/ \E maxAge \in 0..MaxTime, late \in SUBSET Hosts : Cleanup(maxAge, late)

SpecCleanup == InitBucket /\ [][NextCleanup]_vars

\* C32: with Allow calls alone running, however interleaved, at most one
\* bucket is ever made for a host, the map holds it, and every caller that
\* has its bucket in hand for the host holds that one; the bucket has
\* counted every Allow call that returned for the host.
C32_OneBucketPerHost ==
    /\ \A h \in Hosts :
          /\ Cardinality({i \in DOMAIN rl.made : rl.made[i].host = h}) <= 1
          /\ \A i \in DOMAIN rl.made :
                rl.made[i].host = h
                   => h \in DOMAIN rl.limiters /\ rl.limiters[h] = i
    /\ \A p \in Callers :
          rl.call[p].at = "l_allow"
             => /\ rl.call[p].host \in DOMAIN rl.limiters
                /\ rl.call[p].limiter = rl.limiters[rl.call[p].host]

\* Both callers found no bucket for the host, one made it, and both have
\* drawn from it: it has counted two calls.
C32_BothDrewFromOne ==
    \E h \in Hosts :
        /\ h \in DOMAIN rl.limiters
        /\ rl.made[rl.limiters[h]].calls = 2
        /\ rl.made[rl.limiters[h]].last = rl.lastAccessed[h]
        /\ Cardinality({i \in DOMAIN rl.made : rl.made[i] # NoBucket}) = 1
        /\ \A p \in Callers :
              rl.call[p] = [at |-> "idle", host |-> h,
                            limiter |-> rl.limiters[h], ok |-> rl.call[p].ok]

\* C40: the bucket map and the lastAccessed map have the same hosts.
C40_SameHosts == DOMAIN rl.limiters = DOMAIN rl.lastAccessed

\* ------------------------------------------------------- detectRemoteInfo

\* What a probe command prints, in pieces: the words "Windows" and "_NT", a
\* piece "x" of any other text, and four characters of white space: the
\* blank, the tab, the carriage return and the line feed.  Every output of
\* up to MaxOutLen pieces is tried, and four longer ones: the three lines
\* of a POSIX host, the three lines of cmd.exe, which end in CR LF, with
\* the OS Windows_NT and with another OS that starts with Windows, and two
\* lines of cmd.exe with an OS that does not.
MaxOutLen == 3
ProbeChars == {"Windows", "_NT", "x", " ", "\t", "\r", "\n"}
SampleOutputs ==
    {<<"x", "\n", "x", "\n", "x", "\n">>,
     <<"Windows", "_NT", "\r", "\n", "x", "\r", "\n", "x", "\r", "\n">>,
     <<"Windows", "x", "\r", "\n", "x", "\r", "\n", "x", "\r", "\n">>,
     <<"x", "Windows", "\r", "\n", "x", "\r", "\n">>}

\* unicode.IsSpace: the code points with the White_Space property, which
\* strings.TrimSpace cuts: tab, line feed, vertical tab, form feed, carriage
\* return, space, U+0085, U+00A0, U+1680, U+2000 to U+200A, U+2028, U+2029,
\* U+202F, U+205F and U+3000.
WhiteSpaceCodes ==
    (9..13) \cup {32, 133, 160, 5760} \cup (8192..8202)
        \cup {8232, 8233, 8239, 8287, 12288}
WhiteSpace == {CharOf(code) : code \in WhiteSpaceCodes}
Blank(c) == c \in WhiteSpace

\* detect.go:55-79: what runProbeCommand can get: the error of NewSession,
\* the error of Run, the deadline of detectTimeout, or the command's output.
ProbeOutcomes ==
    {[err |-> e, stdout |-> <<>>] : e \in {"newsession", "run", "timeout"}}
       \cup {[err |-> "", stdout |-> o] :
                o \in StringsOver(ProbeChars, 0, MaxOutLen) \cup SampleOutputs}

\* strings.TrimSpace
RECURSIVE TrimLeft(_)
TrimLeft(str) ==
    IF str # <<>> /\ Blank(Head(str)) THEN TrimLeft(Tail(str)) ELSE str
RECURSIVE TrimRight(_)
TrimRight(str) ==
    IF str # <<>> /\ Blank(str[Len(str)])
    THEN TrimRight(SubSeq(str, 1, Len(str) - 1)) ELSE str
TrimSpace(str) == TrimRight(TrimLeft(str))

\* strings.Split(str, "\n"): the lines of str, one at least.
RECURSIVE Split(_)
Split(str) ==
    IF \E i \in DOMAIN str : str[i] = "\n"
    THEN LET i == CHOOSE k \in DOMAIN str :
                     str[k] = "\n" /\ \A j \in 1..(k - 1) : str[j] # "\n"
         IN <<SubSeq(str, 1, i - 1)>> \o Split(SubSeq(str, i + 1, Len(str)))
    ELSE <<str>>

\* RemoteInfo{}
NoInfo == [OS |-> <<>>, Arch |-> <<>>, Shell |-> <<>>]

\* The trimmed line n of the output, empty when there is none.
Line(lines, n) == IF Len(lines) >= n THEN TrimSpace(lines[n]) ELSE <<>>

\* detect.go:82-98
parseDetectionOutput(output) ==
    LET lines == Split(output)
    IN [OS |-> Line(lines, 1), Arch |-> Line(lines, 2), Shell |-> Line(lines, 3)]

\* detect.go:103-129 without the return at 118-120: Arch and Shell are
\* read whatever the first line is.
parseWindowsAnyOS(output) ==
    LET lines == Split(output)
        os == Line(lines, 1)
    IN [OS |-> IF os = <<"Windows", "_NT">> THEN <<"Windows">>
               ELSE IF StartsWith(os, <<"Windows">>) THEN os ELSE <<>>,
        Arch |-> Line(lines, 2), Shell |-> Line(lines, 3)]

\* detect.go:103-129
parseWindowsDetectionOutput(output) ==
    LET lines == Split(output)
        os == Line(lines, 1)
        OS == IF os = <<"Windows", "_NT">> THEN <<"Windows">>
              ELSE IF StartsWith(os, <<"Windows">>) THEN os ELSE <<>>
    IN IF OS = <<>> THEN NoInfo
       ELSE [OS |-> OS, Arch |-> Line(lines, 2), Shell |-> Line(lines, 3)]

\* No probe was run.
NotRun == [err |-> "notrun", stdout |-> <<>>]

\* detect.go:30 and 40: the command of each probe, a text of one piece.
ProbeCommand(probe) ==
    IF probe = "posix" THEN <<"uname -s; uname -m; echo $SHELL">>
    ELSE <<"echo %OS%; echo %PROCESSOR_ARCHITECTURE%; echo %COMSPEC%">>

\* Where detectRemoteInfo is: in the probe, at the call of runProbeCommand
\* named by at: "NewSession" (detect.go:56), "Run" (the goroutine of 66-68
\* has not sent the command yet) or "select" (70-78, the command is with
\* the host).  Before the first step the POSIX probe is at NewSession.
ProbeAt(probe, at) ==
    IF verdict = NoVerdict THEN probe = "posix" /\ at = "NewSession"
    ELSE /\ verdict.fn = "runProbeCommand"
         /\ verdict.probe = probe /\ verdict.at = at

\* The outcomes runProbeCommand can return with from each place: the error
\* of NewSession (57-59); before the command is sent, the error of Run on a
\* lost link (72-74) or the deadline (76-78); once it is sent, the error of
\* Run, the deadline, or the output (75).
ProbeReturns(at, outcome) ==
    CASE at = "NewSession" -> outcome.err = "newsession"
      [] at = "Run" -> outcome.err \in {"run", "timeout"}
      [] at = "select" -> outcome.err # "newsession"

\* detect.go:56-64: NewSession has opened a channel on the client; the
\* probe goes on to start the goroutine that runs the command.
ProbeNewSession(client, probe) ==
    /\ ProbeAt(probe, "NewSession")
    /\ verdict' = IF verdict = NoVerdict
                  THEN [fn |-> "runProbeCommand", probe |-> probe, at |-> "Run",
                        client |-> client,
                        posix |-> NotRun, windows |-> NotRun,
                        parsed |-> NoInfo, info |-> NoInfo]
                  ELSE [verdict EXCEPT !.at = "Run"]
    /\ remote' = [remote EXCEPT !.channels = @ + 1]
    /\ UNCHANGED <<conns, sess, clients, mu, pc, loc, ret, now, filter, rpm,
                   sshConfig, fs, rl>>

\* detect.go:66-68: session.Run(command) has sent the command, which the
\* host starts; runProbeCommand waits in the select of 70-78.
ProbeRun(probe) ==
    /\ ProbeAt(probe, "Run")
    /\ verdict' = [verdict EXCEPT !.at = "select"]
    /\ remote' = [remote EXCEPT !.ran = @ \cup {ProbeCommand(probe)}]
    /\ UNCHANGED <<conns, sess, clients, mu, pc, loc, ret, now, filter, rpm,
                   sshConfig, fs, rl>>

\* detect.go:25-37: the POSIX probe of detectRemoteInfo(ctx, client) has
\* returned posix, from NewSession, from a Run that did not send the
\* command, or from the select; the deadline closes the session and sends
\* the host nothing (76-78).  detectRemoteInfo returns what it parsed when
\* the probe gave an OS, and goes on to the Windows probe otherwise.
\* runProbeCommand returns the trimmed output (detect.go:75).
DetectPosix(client, posix) ==
    LET info == parseDetectionOutput(TrimSpace(posix.stdout))
        done == posix.err = "" /\ info.OS # <<>>
    IN
    /\ \E at \in {"NewSession", "Run", "select"} :
          ProbeAt("posix", at) /\ ProbeReturns(at, posix)
    /\ verdict' = [fn |-> IF done THEN "detectRemoteInfo" ELSE "runProbeCommand",
                   probe |-> "windows", at |-> "NewSession",
                   client |-> client,
                   posix |-> posix, windows |-> NotRun,
                   parsed |-> NoInfo, info |-> IF done THEN info ELSE NoInfo]
    /\ UNCHANGED <<conns, sess, clients, mu, pc, loc, ret, now, filter, rpm,
                   remote, sshConfig, fs, rl>>

\* detect.go:39-51: the Windows probe has returned windows; what it parsed
\* is returned when it gave an OS, else the empty RemoteInfo.
DetectWindows(windows) ==
    LET parsed == IF windows.err = ""
                  THEN parseWindowsDetectionOutput(TrimSpace(windows.stdout))
                  ELSE NoInfo
    IN
    /\ \E at \in {"NewSession", "Run", "select"} :
          ProbeAt("windows", at) /\ ProbeReturns(at, windows)
    /\ verdict' = [verdict EXCEPT !.fn = "detectRemoteInfo",
                                  !.windows = windows,
                                  !.parsed = parsed,
                                  !.info = IF parsed.OS # <<>> THEN parsed ELSE NoInfo]
    /\ UNCHANGED <<conns, sess, clients, mu, pc, loc, ret, now, filter, rpm,
                   remote, sshConfig, fs, rl>>

\* The place of the probe in Connect, which is not in pool.go as it is
\* here; after the specification (4.2, step 6 and 4.5): once the dial has
\* succeeded and the client is stored, the probe runs on the new client,
\* and the ready signal is closed when detectRemoteInfo has returned.
ConnectProbeNewSession(p, probe) ==
    /\ pc[p] = "c_ready"
    /\ ProbeNewSession(sess[loc[p].pending].Client, probe)
ConnectProbeRun(p, probe) ==
    /\ pc[p] = "c_ready"
    /\ ProbeRun(probe)
ConnectDetectPosix(p, posix) ==
    /\ pc[p] = "c_ready"
    /\ DetectPosix(sess[loc[p].pending].Client, posix)
ConnectDetectWindows(p, windows) ==
    /\ pc[p] = "c_ready"
    /\ DetectWindows(windows)
ConnectDetected(p) ==
    /\ verdict.fn = "detectRemoteInfo"
    /\ ConnectReady(p)

InitDetect == InitWith(NoFilter, RateLimit, DefaultConfig)

\* One goroutine connects to one identity, on a host that answers the two
\* probes in any way.
NextDetect ==
    \/ \E params \in ParamsOf(TheID) \cap ValidParams : ConnectStart("c1", params)
    \/ ConnectWait1("c1") \/ ConnectProbe1("c1") \/ ConnectBump1("c1")
    \/ ConnectAuth("c1") \/ ConnectLock("c1")
    \/ ConnectDial("c1")
    \/ \E probe \in {"posix", "windows"} : ConnectProbeNewSession("c1", probe)
    \/ \E probe \in {"posix", "windows"} : ConnectProbeRun("c1", probe)
    \/ \E posix \in ProbeOutcomes : ConnectDetectPosix("c1", posix)
    \/ \E windows \in ProbeOutcomes : ConnectDetectWindows("c1", windows)
    \/ ConnectDetected("c1")

SpecDetect == InitDetect /\ [][NextDetect]_vars

\* What C33 says of a call of detectRemoteInfo that has returned, v being
\* the record of the call.
DetectedAsClaimed(v) ==
    v.fn = "detectRemoteInfo" =>
        LET posix == v.posix
            windows == v.windows
            first == TrimSpace(Split(TrimSpace(windows.stdout))[1])
            isWindows == /\ Len(first) >= 1
                         /\ first[1] = "Windows"
            posixOS == TrimSpace(Split(TrimSpace(posix.stdout))[1])
        IN /\ DOMAIN v.info = {"OS", "Arch", "Shell"}
           /\ (posix.err # "" /\ windows.err \notin {"", "notrun"})
                 => v.info = NoInfo
           /\ (windows # NotRun) <=> (posix.err # "" \/ posixOS = <<>>)
           /\ windows = NotRun => v.info.OS = posixOS
           /\ (v.parsed.Arch # <<>> \/ v.parsed.Shell # <<>>)
                 => /\ windows.err = "" /\ isWindows
                    /\ v.parsed.OS =
                          IF first = <<"Windows", "_NT">> THEN <<"Windows">> ELSE first
           /\ windows # NotRun
                 => v.info = IF windows.err = "" /\ isWindows
                             THEN v.parsed ELSE NoInfo
           /\ \A c \in WhiteSpace :
                 \A field \in {v.info.OS, v.info.Arch, v.info.Shell} :
                    field # <<>> => field[1] # c /\ field[Len(field)] # c

\* C33: the probe never fails a connect: whatever the two probes give, the
\* Connect that ran detectRemoteInfo on its new client closes the ready
\* signal of a connected session and returns its id with a nil error.
\* detectRemoteInfo returns a RemoteInfo whatever the probes do, the empty
\* one when both fail or time out; it runs the Windows probe exactly when
\* the POSIX probe failed or gave no OS; and what is parsed from the
\* Windows probe has an Arch or a Shell only when the first line of the
\* output is Windows_NT (the OS is then "Windows") or starts with Windows
\* (the OS is then that line).  No field starts or ends with white space.
C33_DetectNeverFails ==
    [][/\ DetectedAsClaimed(verdict')
       /\ \A p \in Callers :
            (pc[p] = "c_ready" /\ pc'[p] # "c_ready")
               => /\ verdict.fn = "detectRemoteInfo"
                  /\ verdict.client = sess[loc[p].pending].Client
                  /\ ret'.by = p /\ ret'.op = "Connect" /\ ret'.err = ""
                  /\ ret'.id = loc[p].id
                  /\ conns'[loc[p].id] = loc[p].pending
                  /\ sess'[loc[p].pending].ready
                  /\ sess'[loc[p].pending].Connected
      ]_vars

\* The POSIX probe failed and the Windows probe printed the three lines of
\* cmd.exe, each ended by CR LF: the OS is Windows, the Arch and the Shell
\* are set without the CR, and Connect has returned the session's id.
C33_WindowsDetected ==
    /\ verdict.fn = "detectRemoteInfo"
    /\ verdict.posix.err = "run"
    /\ verdict.windows.stdout =
          <<"Windows", "_NT", "\r", "\n", "x", "\r", "\n", "x", "\r", "\n">>
    /\ verdict.info = [OS |-> <<"Windows">>, Arch |-> <<"x">>, Shell |-> <<"x">>]
    /\ ret.op = "Connect" /\ ret.err = ""
    /\ conns[ret.id] # NoSess /\ sess[conns[ret.id]].ready

\* ------------------------------------------- the pool under concurrency

\* The session a Connect call of p that is about to return an id returns
\* it for: the one it made, or the one it found alive.
ConnectedFor(p) ==
    IF pc[p] = "c_ready" THEN loc[p].pending ELSE loc[p].existing

\* C34 as stated: when Connect has returned an id without error, the pool
\* maps the id to a session whose ready signal is closed, whose connectErr
\* is nil and whose client is set.
C34_ReturnedIdInPool ==
    (ret.op = "Connect" /\ ret.err = "")
        => /\ conns[ret.id] # NoSess
           /\ sess[conns[ret.id]].ready
           /\ ~sess[conns[ret.id]].connectErr
           /\ sess[conns[ret.id]].Client # NoClient

\* C34, amended: when Connect returns an id without error, the session it
\* returns the id for (the one it dialed, or the one it found alive) has
\* that id, no connectErr and a client, and its ready signal is closed; the
\* pool maps the id to that session, or to no session or another one when
\* a Disconnect, CloseAll or a replacing Connect has taken it out since.
C34_ReturnedSessionReady ==
    [][\A p \in Callers :
        (ret'.op = "Connect" /\ ret'.by = p /\ ret'.err = "" /\ pc[p] # "idle")
           => LET o == ConnectedFor(p)
              IN /\ o # NoSess
                 /\ sess[o].ID = ret'.id
                 /\ ~sess[o].connectErr
                 /\ sess[o].Client # NoClient
                 /\ pc[p] # "c_ready" => sess[o].ready
                 /\ sess'[o].ID # Collected
                       => /\ sess'[o].ready /\ ~sess'[o].connectErr
                          /\ sess'[o].Client = sess[o].Client
                 /\ conns'[ret'.id] # o
                       => \/ conns'[ret'.id] = NoSess
                          \/ sess'[conns'[ret'.id]].ID = ret'.id
      ]_vars

\* Connect has returned the id of the session it dialed while a Disconnect
\* that took the reservation out of the pool waits for its ready signal.
C34_ReturnedWhileDisconnecting ==
    /\ ret.op = "Connect" /\ ret.err = "" /\ ret.pending # NoSess
    /\ conns[ret.id] = NoSess
    /\ sess[ret.pending].ready /\ sess[ret.pending].Client # NoClient
    /\ \E q \in Callers : pc[q] = "d_wait" /\ loc[q].conn = ret.pending

\* One goroutine connects to one identity (or finds the session alive);
\* both resolve the session and disconnect it, the cleanup goroutine and
\* CloseAll run, the clock runs.  The links stay up and Connect replaces
\* no session, so a session leaves the pool only through Disconnect,
\* cleanupIdle or CloseAll.
NextRemoval ==
    \/ \E params \in ParamsOf(TheID) \cap ValidParams : ConnectStart("c1", params)
    \/ ConnectWait1("c1") \/ ConnectProbe1("c1") \/ ConnectBump1("c1")
    \/ ConnectAuth("c1") \/ ConnectLock("c1")
    \/ ConnectDial("c1") \/ ConnectReady("c1")
    \/ \E p \in Callers :
         \/ GetStart(p, TheID) \/ GetSteps(p) \/ Release(p)
         \/ DisconnectStart(p, TheID) \/ DisconnectWait(p)
    \/ cleanupIdle(Janitor)
    \/ CloseAll(Closer)
    \/ Tick

SpecRemoval == Init /\ [][NextRemoval]_vars

\* C35: a GetConnection call starts a dial for its session, installs a new
\* client into it or returns it only while the pool still maps the id to
\* that session.
C35_NoReconnectAfterRemoval ==
    [][\A p \in Callers :
        (\/ pc[p] = "g_close" /\ pc'[p] = "g_dial"
         \/ pc[p] \in {"g_dial", "g_bump"} /\ pc'[p] = "x_hold")
           => conns[loc[p].id] = loc[p].conn
      ]_vars

\* One goroutine connects to one identity; both resolve the session, with
\* auto-reconnect, while links are lost.  No session leaves the pool.
NextReconnect ==
    \/ \E params \in ParamsOf(TheID) \cap ValidParams : ConnectStart("c1", params)
    \/ ConnectAuth("c1") \/ ConnectLock("c1")
    \/ ConnectDial("c1") \/ ConnectReady("c1")
    \/ \E p \in Callers : GetStart(p, TheID) \/ GetSteps(p) \/ Release(p)
    \/ \E c \in ClientIdx : LinkDown(c)

SpecReconnect == Init /\ [][NextReconnect]_vars

\* C36: every client that a dial produced and that has not been closed is
\* the current client of exactly one session.
\* A client that is open and is the Client of no session is "leaked".
C36_ClientOwnedOrClosed ==
    \A c \in ClientIdx :
        /\ clients[c].st # "leaked"
        /\ clients[c].st \in {"up", "down"}
              => Cardinality({o \in SessIdx : sess[o].Client = c}) = 1

\* C37: the session that the idle cleanup takes out of the pool is, at that
\* moment, connected and idle for longer than max_idle.
C37_RemovedStillIdle ==
    [][(pc[Janitor] = "k_loop" /\ pc'[Janitor] = "k_wait")
          => LET o == loc'[Janitor].conn IN
             /\ sess[o].Connected
             /\ now - sess[o].LastUsed > MaxIdleTime]_vars

\* ================================================ idle eviction, fairly run

\* The steps of a call of goroutine c1 that is under way: a goroutine that
\* can take its next step takes it.
CallSteps ==
    \/ ConnectWait1("c1") \/ ConnectCtx1("c1")
    \/ ConnectProbe1("c1") \/ ConnectBump1("c1") \/ ConnectRmDead("c1")
    \/ ConnectCloseDead("c1") \/ ConnectAuth("c1") \/ ConnectLock("c1")
    \/ ConnectDial("c1") \/ ConnectReady("c1")
    \/ ConnectDialErr("c1") \/ ConnectFail("c1") \/ ConnectFailClose("c1")
    \/ GetSteps("c1") \/ Release("c1")

\* pool.go:66-78: the ticker of StartIdleCleanup fires again and again, and
\* every cleanupIdle it starts runs to its end.
SpecEvict ==
    /\ Init /\ [][NextIdle]_vars
    /\ WF_vars(cleanupIdle(Janitor))
    /\ WF_vars(CallSteps)

\* The session o is in the pool, ready, and last used longer ago than
\* max_idle.
IdleInPool(o) ==
    /\ conns[TheID] = o
    /\ sess[o].ready
    /\ now - sess[o].LastUsed > MaxIdleTime

\* C38: a ready session in the pool that has been idle for longer than
\* max_idle is eventually removed from the pool, unless it is retrieved.
C38_IdleEventuallyRemoved ==
    \A o \in SessIdx : IdleInPool(o) ~> ~IdleInPool(o)

\* ============================================ Connect and the caller's params

\* C39: a Connect call returns a session id only when it has built a client
\* configuration from its own params (past pool.go:165 the call holds the
\* configuration), so never for params from which none can be built.
C39_IdOnlyWithUsableAuth ==
    [][\A p \in Callers :
        (pc[p] # "idle" /\ pc'[p] = "idle"
           /\ ret'.by = p /\ ret'.op = "Connect" /\ ret'.err = "")
           => \/ loc[p].clientConfig # NoConfig
              \/ BuildClientConfigOK(loc[p].params)]_vars

\* ------------------------------------------------ open files and renames

\* This machine with the file "/a/a" that holds "xy"; the host with the
\* file "/a/r" that holds "xy" and the directory "/a/d" that holds the
\* file "a".  max_file_size is not set.
HandleFiles ==
    [local |-> Stored(NoFS.local, Child(WorkDir, <<"a">>),
                      RegularFile(<<"x", "y">>, DefaultMode)),
     remote |-> Stored(Stored(Stored(NoFS.remote, Child(HomeDir, <<"r">>),
                                     RegularFile(<<"x", "y">>, DefaultMode)),
                              Child(HomeDir, <<"d">>), Directory(DirMode)),
                       Child(Child(HomeDir, <<"d">>), <<"a">>),
                       RegularFile(<<"x">>, DefaultMode))]

\* The calls that hold a remote file or directory open over several
\* requests, and the calls of another goroutine that move it meanwhile.
HolderInputs ==
    {[tool |-> "ssh_upload_file", SessionID |-> TheID,
      LocalPath |-> <<"a">>, RemotePath |-> <<"r">>],
     [tool |-> "ssh_download_file", SessionID |-> TheID,
      LocalPath |-> <<"b">>, RemotePath |-> <<"r">>],
     [tool |-> "ssh_list_directory", SessionID |-> TheID, Path |-> <<"d">>],
     [tool |-> "ssh_download_directory", SessionID |-> TheID,
      LocalPath |-> <<"e">>, RemotePath |-> <<"d">>],
     [tool |-> "ssh_edit_file", SessionID |-> TheID, RemotePath |-> <<"r">>,
      Mode |-> "replace", Content |-> <<"y", "x">>, OldString |-> <<>>,
      NewString |-> <<>>, Backup |-> <<>>, before |-> NoFile]}
MoverInputs ==
    {[tool |-> "ssh_rename", SessionID |-> TheID,
      OldPath |-> pr[1], NewPath |-> pr[2]] :
         pr \in {<<<<"r">>, <<"q">>>>, <<<<"d">>, <<"e">>>>}}
       \cup {[tool |-> "ssh_upload_file", SessionID |-> TheID,
              LocalPath |-> <<"a">>, RemotePath |-> rp] :
                rp \in {<<"d", "/", "x">>, <<"e", "/", "x">>}}

InitHandles ==
    InitAll(NoFilter, AdmitRate,
            [DefaultConfig EXCEPT !.RateLimitFileOps = FALSE], HandleFiles)

FileSteps(p) ==
    \/ HandleFileCall(p) \/ GetWait(p) \/ GetProbe(p) \/ GetBump(p)
    \/ FileAllow(p)
    \/ NewSFTPClient(p) \/ RequestSubsystem(p, TRUE) \/ NewClientPipe(p)
    \/ FileExpand(p)
    \/ UploadOpen(p) \/ UploadCreate(p) \/ UploadCopy(p) \/ UploadChmod(p)
    \/ DownloadOpen(p) \/ DownloadStat(p) \/ DownloadCreate(p)
    \/ DownloadCopyStat(p) \/ DownloadCopy(p) \/ DownloadChmod(p)
    \/ DownloadDirRoot(p) \/ DownloadDirStep(p) \/ ReadDir(p)
    \/ DownloadDirListed(p) \/ DownloadDir(p)
    \/ RenameExpand(p) \/ HandleRename(p)
    \/ HandleListDirectory(p) \/ ListDir(p)
    \/ EditRun(p) \/ ReadOpen(p) \/ ReadData(p)
    \/ defaultPerms(p) \/ WriteCreate(p) \/ WriteData(p) \/ WriteChmod(p)

\* One goroutine connects and holds files open, another moves them.
NextHandles ==
    \/ \E params \in ParamsOf(TheID) \cap ValidParams : ConnectStart("c1", params)
    \/ ConnectWait1("c1") \/ ConnectProbe1("c1") \/ ConnectBump1("c1")
    \/ ConnectAuth("c1") \/ ConnectLock("c1")
    \/ ConnectDial("c1") \/ ConnectReady("c1")
    \/ \E input \in HolderInputs : FileCall("c1", input)
    \/ \E input \in MoverInputs : FileCall("c2", input)
    \/ FileSteps("c1") \/ FileSteps("c2")

SpecHandles == InitHandles /\ [][NextHandles]_vars

\* Every node of the host's file system is a file that exists.
NoGhost == \A x \in DOMAIN fs.remote : fs.remote[x].exists

====
